---- MODULE Spec2Model ----
(***************************************************************************)
(* A model of nrfxlib (Rust bindings for the nRF9160 modem library).       *)
(*                                                                         *)
(*   - the two interrupt-safe region allocators of src/ffi.rs              *)
(*     (nrf_modem_os_alloc/free, nrf_modem_os_shm_tx_alloc/free) over the  *)
(*     linked_list_allocator heaps created by init() in src/lib.rs;        *)
(*   - the AT response loop AtSocket::poll_response of src/at.rs.          *)
(*                                                                         *)
(* Addresses and sizes are bytes.  A usize is held as the integer that is  *)
(* congruent to it modulo 2^32 and lies in -2^31 .. 2^31-1 (the integers   *)
(* of TLC are 32 bits wide), so usize::MAX is -1 and usize::MAX-3 is -4;   *)
(* wrapping addition of the small numbers used here is integer addition.   *)
(***************************************************************************)
EXTENDS Integers, Sequences, FiniteSets, TLC

VARIABLES
    heap,      \* [Heaps -> NoHeap or [bottom, top, holes]]: the two WrappedHeap statics
    live,      \* [Heaps -> set of allocations handed out and not yet freed]
    status,    \* "running", "panicked" (a Rust panic) or "corrupt" (heap memory corrupted)
    last,      \* observation: what the last allocator call did
    cs,        \* critical-section model: per-context program counter and call data
    primask,   \* critical-section model: TRUE while interrupts are masked
    borrowed,  \* critical-section model: [Heaps -> number of live RefCell borrows]
    at,        \* AT channel: the state of one poll_response invocation
    ipc,       \* IPC driver: event registers, the handler slot, init and ISR in progress
    net,       \* sockets: descriptors, constructors and connect calls in progress
    boot,      \* start-up: the position of init() and whether the modem library runs
    gnss,      \* GNSS: the last read of a GnssSocket and what was decoded from it
    util       \* poll and nrf_modem_os_timedwait: the last call and its outcome

vars == <<heap, live, status, last, cs, primask, borrowed, at, ipc, net, boot, gnss, util>>

-----------------------------------------------------------------------------
(* Bounds of the model *)

\* Size in bytes of the (scaled-down) general region HEAP_MEMORY.
GenHeapSize == 24
\* Size in bytes of the (scaled-down) TX region of shared memory.
TxHeapSize == 16
\* Largest ordinary request size, in bytes.
MaxReq == 5
\* Number of wire lines (or fragments of lines) the modem sends during one
\* poll_response invocation.
MaxPieces == 2
\* Number of IPC channels (event registers) of the model; the device has
\* IPC_CONF_NUM = 8.
IpcChannels == 3
\* Number of nrfx_ipc_init calls in one run.
MaxRegs == 2
\* Largest number of address records in a list of nrf_getaddrinfo.
MaxAddrs == 2

-----------------------------------------------------------------------------
(* Constants of the program *)

\* core::mem::size_of::<usize>() on the Cortex-M33 (thumbv8m, 32 bit).
usize_size == 4
\* Start address of HEAP_MEMORY (a static; scaled down, word aligned).
GenBase == 16
\* Start address of the TX region (params.shmem.tx.base, scaled down).
TxBase == 128

NULL == 0
Heaps == {"GENERIC_ALLOCATOR", "TX_ALLOCATOR"}
NoHeap == [present |-> FALSE]

\* usize::MAX - 3 in the two's-complement representation.
HugeSizes == <<0 - usize_size>>
\* The request sizes tried: nothing, one word, the largest ordinary request,
\* and a size whose sum with the header size wraps.
ReqSizes == <<0, usize_size, MaxReq>> \o HugeSizes

\* Unsigned comparison of two usize values.
ULess(a, b) == IF (a < 0) = (b < 0) THEN a < b ELSE b < 0

-----------------------------------------------------------------------------
(* linked_list_allocator 0.10 (external crate): the hole list.  A hole list *)
(* is a sequence of [addr, size] records in list order.                     *)

\* size_of::<Hole>() == HoleList::min_size(): a usize and a pointer.
min_size == 2 * usize_size
\* align_of::<Hole>()
hole_align == usize_size

align_up(x, a) == ((x + a - 1) \div a) * a
align_down(x, a) == (x \div a) * a

Hole(a, s) == [addr |-> a, size |-> s]

\* HoleList::new / Heap::new: one hole over the aligned region.
Heap_new(heap_start, heap_size) ==
    LET aligned_hole_addr == align_up(heap_start, hole_align)
        requested_hole_size == heap_size - (aligned_hole_addr - heap_start)
        aligned_hole_size == align_down(requested_hole_size, hole_align)
    IN  [present |-> TRUE,
         bottom  |-> aligned_hole_addr,
         top     |-> aligned_hole_addr + aligned_hole_size,
         holes   |-> <<Hole(aligned_hole_addr, aligned_hole_size)>>]

\* HoleList::align_layout: the size the heap really allocates or releases.
\* Layout::from_size_align(..).unwrap() panics when the size exceeds isize::MAX.
align_layout_panics(size) == size < 0
align_layout(size) ==
    align_up(IF ULess(size, min_size) THEN min_size ELSE size, hole_align)

\* Cursor::split_current on one hole: [ok, ptr, repl], repl the holes that
\* replace the current one (front padding, back padding).
split_current(hole, required_size, required_align) ==
    LET hole_end == hole.addr + hole.size
        aligned == hole.addr = align_up(hole.addr, required_align)
        aligned_addr == IF aligned THEN hole.addr
                        ELSE align_up(hole.addr + min_size, required_align)
        front == IF aligned THEN <<>>
                 ELSE <<Hole(hole.addr, aligned_addr - hole.addr)>>
        allocation_end == aligned_addr + required_size
        back_padding_size == hole_end - allocation_end
        back_padding_start == align_up(allocation_end, hole_align)
        fail == [ok |-> FALSE, ptr |-> NULL, repl |-> <<hole>>]
    IN  IF hole.size < required_size THEN fail
        ELSE IF allocation_end > hole_end THEN fail
        ELSE IF back_padding_size = 0
             THEN [ok |-> TRUE, ptr |-> aligned_addr, repl |-> front]
        ELSE IF back_padding_start + min_size <= hole_end
             THEN [ok |-> TRUE, ptr |-> aligned_addr,
                   repl |-> front \o <<Hole(back_padding_start, back_padding_size)>>]
        ELSE fail

RECURSIVE first_fit_from(_, _, _, _)
first_fit_from(holes, i, size, align) ==
    IF i > Len(holes) THEN [ok |-> FALSE, ptr |-> NULL, holes |-> holes]
    ELSE LET r == split_current(holes[i], size, align)
         IN  IF r.ok
             THEN [ok |-> TRUE, ptr |-> r.ptr,
                   holes |-> SubSeq(holes, 1, i - 1) \o r.repl
                             \o SubSeq(holes, i + 1, Len(holes))]
             ELSE first_fit_from(holes, i + 1, size, align)

\* Heap::allocate_first_fit(layout): [ok, ptr, holes] (ok = FALSE is Err(())).
allocate_first_fit(holes, layout_size, layout_align) ==
    first_fit_from(holes, 1, align_layout(layout_size), layout_align)

\* check_merge_bottom: a node closer than one Hole to the bottom is moved to it.
check_merge_bottom(node, bottom) ==
    IF bottom + min_size > node.addr
    THEN Hole(bottom, node.size + (node.addr - bottom))
    ELSE node

\* check_merge_top: a last node ending closer than one Hole to the top is
\* extended to the top.
check_merge_top(node, top) ==
    LET end == node.addr + node.size
    IN  IF end < top /\ align_up(end, hole_align) + min_size > top
        THEN Hole(node.addr, node.size + (top - end))
        ELSE node

\* Cursor::try_merge_next_n: starting at index i, merge with touching
\* successors, at most max steps.
RECURSIVE try_merge_next_n(_, _, _, _)
try_merge_next_n(holes, i, max, top) ==
    IF max = 0 THEN holes
    ELSE IF i >= Len(holes)
         THEN [holes EXCEPT ![i] = check_merge_top(holes[i], top)]
    ELSE IF holes[i].addr + holes[i].size = holes[i + 1].addr
         THEN try_merge_next_n(
                  SubSeq(holes, 1, i - 1)
                  \o <<Hole(holes[i].addr, holes[i].size + holes[i + 1].size)>>
                  \o SubSeq(holes, i + 2, Len(holes)),
                  i, max - 1, top)
    ELSE try_merge_next_n(holes, i + 1, max - 1, top)

\* The index of the hole after which the node is inserted (the walk of
\* try_insert_after), or 0 when an assertion of the walk fails.
RECURSIVE insert_after_index(_, _, _)
insert_after_index(holes, i, node) ==
    LET has_next == i < Len(holes)
    IN  IF has_next /\ ~(node.addr < holes[i + 1].addr)
        THEN insert_after_index(holes, i + 1, node)
        ELSE IF has_next /\ node.addr + node.size > holes[i + 1].addr THEN 0
        ELSE IF holes[i].addr + holes[i].size > node.addr THEN 0
        ELSE i

\* hole::deallocate(list, addr, size): [panic, holes].  panic is the failed
\* assertion "Freed node aliases existing hole! Bad free?".
hole_deallocate(hp, addr, size) ==
    LET node == Hole(addr, size)
        holes == hp.holes
    IN  IF Len(holes) = 0
        THEN [panic |-> FALSE,
              holes |-> <<check_merge_top(check_merge_bottom(node, hp.bottom), hp.top)>>]
        ELSE IF addr < holes[1].addr
        THEN IF addr + size > holes[1].addr
             THEN [panic |-> TRUE, holes |-> holes]
             ELSE [panic |-> FALSE,
                   holes |-> try_merge_next_n(
                                 <<check_merge_bottom(node, hp.bottom)>> \o holes,
                                 1, 1, hp.top)]
        ELSE LET i == insert_after_index(holes, 1, node)
             IN  IF i = 0 THEN [panic |-> TRUE, holes |-> holes]
                 ELSE [panic |-> FALSE,
                       holes |-> try_merge_next_n(
                                     SubSeq(holes, 1, i) \o <<node>>
                                     \o SubSeq(holes, i + 1, Len(holes)),
                                     i, 2, hp.top)]

\* Heap::deallocate(ptr, layout)
Heap_deallocate(hp, ptr, layout_size) ==
    IF align_layout_panics(layout_size)
    THEN [panic |-> TRUE, holes |-> hp.holes]
    ELSE hole_deallocate(hp, ptr, align_layout(layout_size))

-----------------------------------------------------------------------------
(* src/ffi.rs: the allocator entry points.  Each call runs inside one       *)
(* cortex_m::interrupt::free section, so in this specification a call is   *)
(* one atomic action; CSSpec below splits the section into its steps.      *)

Range(lo, hi) == {x \in lo .. hi - 1 : TRUE}
Overlap(a1, e1, a2, e2) == a1 < e2 /\ a2 < e1

\* The holes of a heap as a set of byte ranges.
HoleSet(holes) == {holes[i] : i \in 1 .. Len(holes)}

InRegion(hp, a, e) == hp.bottom <= a /\ e <= hp.top

\* Heap memory is corrupted once a hole overlaps a live block: the Hole
\* records written into the hole and the data of the block then alias, and
\* what the heap does next depends on what is written there.  The same holds
\* once a block outside the region is handed out.  The model stops at either
\* point (status "corrupt").
Corrupted(hp, blocks) ==
    \E hl \in HoleSet(hp.holes) :
        \E b \in blocks :
            Overlap(hl.addr, hl.addr + hl.size, b.block, b.block + b.size)

NoOp ==
    [op |-> "none", h |-> "GENERIC_ALLOCATOR", num_bytes |-> 0, result |-> NULL,
     block |-> NULL, layout_size |-> 0, header |-> 0, before |-> <<>>,
     dealloc_addr |-> NULL, dealloc_size |-> 0, alloc_layout |-> 0,
     alloc_before |-> <<>>, immediate |-> FALSE, frame |-> TRUE]

\* The other allocator.
Other(h) == IF h = "GENERIC_ALLOCATOR" THEN "TX_ALLOCATOR" ELSE "GENERIC_ALLOCATOR"
\* Observation: this step left the other allocator's heap and blocks alone.
FrameKept(h) == heap'[Other(h)] = heap[Other(h)] /\ live'[Other(h)] = live[Other(h)]

\* `num_bytes + usize_size` wraps exactly when num_bytes is one of the last
\* usize_size values of usize.
add_overflows(num_bytes) == num_bytes < 0 /\ num_bytes + usize_size >= 0

\* The builds that differ on this request: with and without overflow checks.
BuildChoices(num_bytes) ==
    IF add_overflows(num_bytes) THEN BOOLEAN ELSE {FALSE}

\* The header word written by the allocation (ffi.rs:162 and 217).
header_written(num_bytes) == num_bytes
\* The address handed to Heap::deallocate (ffi.rs:194 and 246).
dealloc_pointer(ptr, real_ptr) == ptr

\* nrf_modem_os_alloc / nrf_modem_os_shm_tx_alloc on the heap h.
\* overflow_checks: the build panics on arithmetic overflow (debug) or wraps.
alloc_call(h, num_bytes, overflow_checks) ==
    LET layout_size == num_bytes + usize_size
        hp == heap[h]
        r == IF hp.present
             THEN allocate_first_fit(hp.holes, layout_size, usize_size)
             ELSE [ok |-> FALSE, ptr |-> NULL, holes |-> <<>>]
        obs == [NoOp EXCEPT !.op = "alloc", !.h = h, !.num_bytes = num_bytes,
                            !.layout_size = layout_size,
                            !.before = IF hp.present THEN hp.holes ELSE <<>>]
    IN  IF (overflow_checks /\ add_overflows(num_bytes))
           \/ (hp.present /\ align_layout_panics(layout_size))
        THEN /\ status' = "panicked"
             /\ UNCHANGED <<heap, live>>
             /\ last' = [obs EXCEPT !.frame = FrameKept(h)]
        ELSE IF r.ok
        THEN /\ heap' = [heap EXCEPT ![h].holes = r.holes]
             /\ live' = [live EXCEPT ![h] = @ \cup
                           {[block |-> r.ptr, ptr |-> r.ptr + usize_size,
                             size |-> align_layout(layout_size),
                             layout_size |-> layout_size,
                             header |-> header_written(num_bytes)]}]
             /\ last' = [obs EXCEPT !.result = r.ptr + usize_size,
                                    !.block = r.ptr,
                                    !.header = header_written(num_bytes),
                                    !.frame = FrameKept(h)]
             /\ status' = IF InRegion(hp, r.ptr, r.ptr + align_layout(layout_size))
                          THEN status ELSE "corrupt"
        ELSE /\ UNCHANGED <<heap, live, status>>
             /\ last' = [obs EXCEPT !.frame = FrameKept(h)]

\* nrf_modem_os_free / nrf_modem_os_shm_tx_free on the heap h, for the live
\* allocation b of that heap (b.ptr is the argument).
free_call(h, b) ==
    LET ptr == b.ptr
        real_ptr == ptr - usize_size
        num_bytes == b.header
        hp == heap[h]
        target == dealloc_pointer(ptr, real_ptr)
        r == Heap_deallocate(hp, target, num_bytes)
        rest == live[h] \ {b}
        newhp == [hp EXCEPT !.holes = r.holes]
        obs == [NoOp EXCEPT !.op = "free", !.h = h, !.num_bytes = num_bytes,
                            !.result = ptr, !.block = real_ptr,
                            !.header = num_bytes,
                            !.dealloc_addr = target,
                            !.dealloc_size = num_bytes,
                            !.alloc_layout = b.layout_size,
                            !.immediate = (last.op = "alloc" /\ last.h = h
                                           /\ last.result = ptr),
                            !.alloc_before = IF last.op = "alloc" /\ last.h = h
                                                /\ last.result = ptr
                                             THEN last.before ELSE <<>>]
    IN  /\ hp.present
        /\ IF r.panic
           THEN /\ status' = "panicked"
                /\ UNCHANGED <<heap, live>>
           ELSE /\ heap' = [heap EXCEPT ![h] = newhp]
                /\ live' = [live EXCEPT ![h] = rest]
                /\ status' = IF Corrupted(newhp, rest) THEN "corrupt" ELSE status
        /\ last' = [obs EXCEPT !.frame = FrameKept(h)]

AllocIdle == UNCHANGED <<cs, primask, borrowed, at, ipc, net, boot, gnss, util>>

\* lib.rs init(): create both heaps (once, before the modem library starts).
init ==
    /\ status = "running"
    /\ ~heap["GENERIC_ALLOCATOR"].present
    /\ heap' = [heap EXCEPT
                  !["GENERIC_ALLOCATOR"] = Heap_new(GenBase, GenHeapSize),
                  !["TX_ALLOCATOR"] = Heap_new(TxBase, TxHeapSize)]
    /\ last' = [NoOp EXCEPT !.op = "init"]
    /\ UNCHANGED <<live, status>>
    /\ AllocIdle

nrf_modem_os_alloc ==
    /\ status = "running"
    /\ \E i \in 1 .. Len(ReqSizes) :
       \E overflow_checks \in BuildChoices(ReqSizes[i]) :
           alloc_call("GENERIC_ALLOCATOR", ReqSizes[i], overflow_checks)
    /\ AllocIdle

nrf_modem_os_free ==
    /\ status = "running"
    /\ \E b \in live["GENERIC_ALLOCATOR"] : free_call("GENERIC_ALLOCATOR", b)
    /\ AllocIdle

nrf_modem_os_shm_tx_alloc ==
    /\ status = "running"
    /\ \E i \in 1 .. Len(ReqSizes) :
       \E overflow_checks \in BuildChoices(ReqSizes[i]) :
           alloc_call("TX_ALLOCATOR", ReqSizes[i], overflow_checks)
    /\ AllocIdle

nrf_modem_os_shm_tx_free ==
    /\ status = "running"
    /\ \E b \in live["TX_ALLOCATOR"] : free_call("TX_ALLOCATOR", b)
    /\ AllocIdle

Contexts == {"thread", "isr"}
IdleCall == [pc |-> "idle", op |-> "none", h |-> "GENERIC_ALLOCATOR",
             num_bytes |-> 0, ptr |-> NULL, block |-> NULL, result |-> NULL,
             primask_was |-> FALSE]
CSIdle == [c \in Contexts |-> IdleCall]
NoResult == [kind |-> "none", code |-> 0]

\* nrfx_ipc_init not running / ipc_irq_handler not running.
InitIdle == [pc |-> "idle", handler |-> 0, p_context |-> 0]
IsrIdle == [pc |-> "idle", events_map |-> 0, bitmask |-> 0, cleared |-> <<>>,
            handler_addr |-> 0, context |-> 0, during_init |-> FALSE]
\* The IPC statics of ffi.rs and the peripheral after reset.
IPCIdle == [events |-> {}, nvic |-> FALSE, IPC_HANDLER |-> 0, IPC_CONTEXT |-> 0,
            init |-> InitIdle, isr |-> IsrIdle, calls |-> <<>>, runs |-> 0,
            lastreg |-> InitIdle, prevreg |-> InitIdle, nregs |-> 0]
\* The place where the application keeps a socket value, and the
\* descriptors of the library: one for that value and one for the socket
\* send_at_command opens and closes by itself.
Slots == {1}
Fds == {0, 1}
\* No value / no operation yet.
NoValue == [kind |-> "none", fd |-> 0 - 1, options |-> {}]
NoResultYet == [kind |-> "none", tag |-> "", code |-> 0, errno |-> 0]
\* supplied: the arguments that are options or levels (the blobs given to
\* provision_certificates, the peer verification level of a constructor).
NoCall == [name |-> "none", kind |-> "none", slot |-> 0, port |-> 0, naddrs |-> 0,
           supplied |-> <<>>, calls |-> <<>>, result |-> NoResultYet]
\* values: the socket values alive; open: the descriptors open in the
\* library; faults: a library call was made on a descriptor that was not
\* open; op: the last operation, with the library calls it made in order.
NetIdle == [pc |-> "idle", values |-> [s \in Slots |-> NoValue], open |-> {},
            faults |-> FALSE, op |-> NoCall]
\* init() not running, nrf_modem_init not yet called.  started: the modem
\* library runs (nrf_modem_init was called) and issues its callbacks.
\* Observations: inits counts the calls of init(), installs the assignments
\* to each static; discarded says that a heap with live blocks was replaced.
BootIdle == [pc |-> "idle", started |-> FALSE, inits |-> 0,
             installs |-> [h \in Heaps |-> 0], discarded |-> FALSE,
             result |-> NoResultYet]
\* A GnssData value: the variant, the text buffer and its length (Nmea), the
\* flags of the position record (Position), the bytes of the record (Agps).
NoData == [variant |-> "none", buffer |-> <<>>, length |-> 0, flags |-> 0]
NoFrame == [data_id |-> 0, bytes |-> <<>>]
\* What process_fix returns, whether it took the frame out of the MaybeUninit
\* and which member of the union it read.
NoFix == [result |-> NoResultYet, data |-> NoData, read |-> FALSE, member |-> "none"]
\* No read of a GnssSocket yet.
GnssIdle == [pc |-> "idle", call |-> "none", count |-> 0, errno |-> 0,
             frame |-> NoFrame, out |-> NoFix, valid |-> FALSE]
\* No call of poll or nrf_modem_os_timedwait yet.  before, list: the poll list
\* as it was given and as the call left it; calls: the calls of the library;
\* backend: what nrf_poll returned; timeout_ms, ret, delay, carry, panicked:
\* the argument of nrf_modem_os_timedwait, what it returned, the cycles it
\* delayed as two 16-bit halves (no delay: <<>>), and what of the product
\* did not fit in 32 bits.
UtilIdle == [pc |-> "idle", fn |-> "none", before |-> <<>>, list |-> <<>>,
             calls |-> <<>>, backend |-> 0, result |-> NoResultYet,
             timeout_ms |-> 0, ret |-> 0, delay |-> <<>>, carry |-> 0,
             panicked |-> FALSE]
ATIdle == [pc |-> "idle", result |-> NoResult, sink |-> <<>>, pieces |-> 0,
           nreads |-> 0, carry |-> <<>>, lf_before |-> FALSE, payload |-> <<>>,
           framing |-> <<>>, last_lines |-> <<>>, last_sunk |-> 0,
           spins |-> 0]

Init ==
    /\ heap = [h \in Heaps |-> NoHeap]
    /\ live = [h \in Heaps |-> {}]
    /\ status = "running"
    /\ last = NoOp
    /\ cs = CSIdle
    /\ primask = FALSE
    /\ borrowed = [h \in Heaps |-> 0]
    /\ at = ATIdle
    /\ ipc = IPCIdle
    /\ net = NetIdle
    /\ boot = BootIdle
    /\ gnss = GnssIdle
    /\ util = UtilIdle

Next ==
    \/ init
    \/ nrf_modem_os_alloc
    \/ nrf_modem_os_free
    \/ nrf_modem_os_shm_tx_alloc
    \/ nrf_modem_os_shm_tx_free

Spec == Init /\ [][Next]_vars

-----------------------------------------------------------------------------
(* The same four entry points, step by step, called from thread context and *)
(* from an interrupt handler (specification CSSpec).  One core: while the   *)
(* handler runs the thread does not, and the handler can start only while   *)
(* interrupts are not masked (PRIMASK clear).                               *)

\* The steps at which a call holds the RefCell borrow of its heap.
InBorrow == {"borrowed", "heapdone"}
\* The steps of a call between the first and the last access to its heap.
InHeapAccess == {"entered", "borrowed", "heapdone", "released"}

\* The context c may take a step: the program runs, and the thread is
\* suspended while the handler is active.
Runs(c) ==
    /\ status = "running"
    /\ c = "thread" => cs["isr"].pc = "idle"

CSFrame == UNCHANGED <<last, at, ipc, net, boot, gnss, util>>

\* The thread calls an entry point (the debug! line, result = null).
\* A free is given a pointer that is live and that no other call is freeing.
BeingFreed == {cs[c].ptr : c \in {x \in Contexts : cs[x].op = "free"}}
CallAlloc(c, h, num_bytes) ==
    /\ Runs(c)
    /\ cs[c].pc = "idle"
    /\ c = "isr" => ~primask
    /\ cs' = [cs EXCEPT ![c] = [IdleCall EXCEPT !.pc = "called", !.op = "alloc",
                                                !.h = h, !.num_bytes = num_bytes]]
    /\ UNCHANGED <<heap, live, status, primask, borrowed>>
    /\ CSFrame

CallFree(c, h, b) ==
    /\ Runs(c)
    /\ cs[c].pc = "idle"
    /\ c = "isr" => ~primask
    /\ b.ptr \notin BeingFreed
    /\ cs' = [cs EXCEPT ![c] = [IdleCall EXCEPT !.pc = "called", !.op = "free",
                                                !.h = h, !.ptr = b.ptr]]
    /\ UNCHANGED <<heap, live, status, primask, borrowed>>
    /\ CSFrame

\* A call whose closure runs without masking interrupts.
interrupts_left_enabled == FALSE
\* Whether cortex_m::interrupt::free masks interrupts on entry (cpsid i).
masks_interrupts == TRUE

\* cortex_m::interrupt::free: remember PRIMASK, disable interrupts, run the
\* closure.  The closure starts with the layout (alloc: num_bytes + usize_size,
\* which panics on overflow in a build with overflow checks) or with the read
\* of the header word (free).
EnterCS(c) ==
    /\ Runs(c)
    /\ cs[c].pc = "called"
    /\ primask' = (primask \/ masks_interrupts)
    /\ \E overflow_checks \in BuildChoices(cs[c].num_bytes) :
          IF cs[c].op = "alloc" /\ overflow_checks /\ add_overflows(cs[c].num_bytes)
          THEN /\ status' = "panicked"
               /\ UNCHANGED cs
          ELSE /\ cs' = [cs EXCEPT
                    ![c].pc = "entered",
                    ![c].primask_was = primask,
                    ![c].num_bytes =
                        IF cs[c].op = "free"
                        THEN (CHOOSE b \in live[cs[c].h] : b.ptr = cs[c].ptr).header
                        ELSE @]
               /\ UNCHANGED status
    /\ UNCHANGED <<heap, live, borrowed>>
    /\ CSFrame

\* ALLOCATOR.borrow(cs).borrow_mut(): RefCell panics when already borrowed.
BorrowMut(c) ==
    /\ Runs(c)
    /\ cs[c].pc = "entered"
    /\ IF borrowed[cs[c].h] > 0
       THEN /\ status' = "panicked"
            /\ UNCHANGED <<cs, borrowed>>
       ELSE /\ borrowed' = [borrowed EXCEPT ![cs[c].h] = @ + 1]
            /\ cs' = [cs EXCEPT ![c].pc = "borrowed"]
            /\ UNCHANGED status
    /\ UNCHANGED <<heap, live, primask>>
    /\ CSFrame

\* The heap operation under the borrow: allocate_first_fit or deallocate
\* (nothing when the static still holds None).
HeapOp(c) ==
    LET h == cs[c].h
        hp == heap[h]
    IN  /\ Runs(c)
        /\ cs[c].pc = "borrowed"
        /\ IF ~hp.present
           THEN /\ cs' = [cs EXCEPT ![c].pc = "heapdone"]
                /\ UNCHANGED <<heap, live, status>>
           ELSE IF cs[c].op = "alloc"
           THEN LET layout_size == cs[c].num_bytes + usize_size
                    r == allocate_first_fit(hp.holes, layout_size, usize_size)
                IN  IF align_layout_panics(layout_size)
                    THEN /\ status' = "panicked"
                         /\ UNCHANGED <<cs, heap, live>>
                    ELSE /\ heap' = [heap EXCEPT ![h].holes = r.holes]
                         /\ cs' = [cs EXCEPT ![c].pc = "heapdone",
                                             ![c].block = r.ptr]
                         /\ status' = IF r.ok => InRegion(hp, r.ptr,
                                                  r.ptr + align_layout(layout_size))
                                      THEN status ELSE "corrupt"
                         /\ UNCHANGED live
           ELSE LET b == CHOOSE x \in live[h] : x.ptr = cs[c].ptr
                    target == dealloc_pointer(cs[c].ptr, cs[c].ptr - usize_size)
                    r == Heap_deallocate(hp, target, cs[c].num_bytes)
                    newhp == [hp EXCEPT !.holes = r.holes]
                IN  IF r.panic
                    THEN /\ status' = "panicked"
                         /\ UNCHANGED <<cs, heap, live>>
                    ELSE /\ heap' = [heap EXCEPT ![h] = newhp]
                         /\ live' = [live EXCEPT ![h] = @ \ {b}]
                         /\ cs' = [cs EXCEPT ![c].pc = "heapdone"]
                         /\ status' = IF Corrupted(newhp, live[h] \ {b})
                                      THEN "corrupt" ELSE status
        /\ UNCHANGED <<primask, borrowed>>
        /\ CSFrame

\* The end of the `if let`: the header write of a successful allocation, then
\* the borrow is dropped.
Release(c) ==
    LET h == cs[c].h
        got == cs[c].op = "alloc" /\ cs[c].block # NULL
    IN  /\ Runs(c)
        /\ cs[c].pc = "heapdone"
        /\ borrowed' = [borrowed EXCEPT ![h] = @ - 1]
        /\ live' = IF got
                   THEN [live EXCEPT ![h] = @ \cup
                           {[block |-> cs[c].block,
                             ptr |-> cs[c].block + usize_size,
                             size |-> align_layout(cs[c].num_bytes + usize_size),
                             layout_size |-> cs[c].num_bytes + usize_size,
                             header |-> header_written(cs[c].num_bytes)]}]
                   ELSE live
        /\ cs' = [cs EXCEPT ![c].pc = "released",
                            ![c].result = IF got THEN cs[c].block + usize_size
                                          ELSE NULL]
        /\ UNCHANGED <<heap, status, primask>>
        /\ CSFrame

\* The end of interrupt::free: interrupts are enabled again if they were
\* enabled on entry; the call returns.
LeaveCS(c) ==
    /\ Runs(c)
    /\ cs[c].pc = "released"
    /\ primask' = cs[c].primask_was
    /\ cs' = [cs EXCEPT ![c] = IdleCall]
    /\ UNCHANGED <<heap, live, status, borrowed>>
    /\ CSFrame

CSStep(c) == EnterCS(c) \/ BorrowMut(c) \/ HeapOp(c) \/ Release(c) \/ LeaveCS(c)

CSInit ==
    /\ heap = [h \in Heaps |->
                 IF h = "GENERIC_ALLOCATOR" THEN Heap_new(GenBase, GenHeapSize)
                 ELSE Heap_new(TxBase, TxHeapSize)]
    /\ live = [h \in Heaps |-> {}]
    /\ status = "running"
    /\ last = NoOp
    /\ cs = CSIdle
    /\ primask = FALSE
    /\ borrowed = [h \in Heaps |-> 0]
    /\ at = ATIdle
    /\ ipc = IPCIdle
    /\ net = NetIdle
    /\ boot = BootIdle
    /\ gnss = GnssIdle
    /\ util = UtilIdle

\* The request sizes of this specification: one that takes the smallest block
\* and the largest ordinary request.
CSReqSizes == <<usize_size, MaxReq>>

ThreadCallAlloc ==
    \E h \in Heaps, i \in 1 .. Len(CSReqSizes) : CallAlloc("thread", h, CSReqSizes[i])
ThreadCallFree == \E h \in Heaps : \E b \in live[h] : CallFree("thread", h, b)
ThreadStep == CSStep("thread")
IsrCallAlloc ==
    \E h \in Heaps, i \in 1 .. Len(CSReqSizes) : CallAlloc("isr", h, CSReqSizes[i])
IsrCallFree == \E h \in Heaps : \E b \in live[h] : CallFree("isr", h, b)
IsrStep == CSStep("isr")

CSNext ==
    \/ ThreadCallAlloc
    \/ ThreadCallFree
    \/ ThreadStep
    \/ IsrCallAlloc
    \/ IsrCallFree
    \/ IsrStep

CSSpec == CSInit /\ [][CSNext]_vars

-----------------------------------------------------------------------------
(* src/at.rs: AtSocket::poll_response (specification ATSpec).  A string is a *)
(* sequence of characters, a character a one-letter string; "<CR>", "<LF>",  *)
(* "<TAB>" and "<NUL>" stand for the control characters.                    *)

CR == "<CR>"
LF == "<LF>"
TAB == "<TAB>"
NUL == "<NUL>"
Digits == <<"0", "1", "2", "3", "4", "5", "6", "7", "8", "9">>

\* The string literals of the match in poll_response.
OK == <<"O", "K">>
ERROR == <<"E", "R", "R", "O", "R">>
CME_ERROR == <<"+", "C", "M", "E", " ", "E", "R", "R", "O", "R", ":">>
CMS_ERROR == <<"+", "C", "M", "S", " ", "E", "R", "R", "O", "R", ":">>

\* char::is_whitespace, for the characters of the model.
is_whitespace(c) == c \in {" ", CR, LF, TAB}

RECURSIVE trim_start(_)
trim_start(str) ==
    IF str # <<>> /\ is_whitespace(Head(str)) THEN trim_start(Tail(str)) ELSE str

RECURSIVE trim_end(_)
trim_end(str) ==
    IF str # <<>> /\ is_whitespace(str[Len(str)])
    THEN trim_end(SubSeq(str, 1, Len(str) - 1))
    ELSE str

\* str::trim
trim(str) == trim_end(trim_start(str))

\* str::starts_with
starts_with(str, prefix) ==
    Len(str) >= Len(prefix) /\ SubSeq(str, 1, Len(prefix)) = prefix

\* The index of the first <LF> of str, or 0.
RECURSIVE find_lf(_, _)
find_lf(str, i) ==
    IF i > Len(str) THEN 0
    ELSE IF str[i] = LF THEN i
    ELSE find_lf(str, i + 1)

\* One line without its terminator: "\n" is removed, and a "\r" before it.
strip_line_end(line) ==
    IF Len(line) > 0 /\ line[Len(line)] = CR
    THEN SubSeq(line, 1, Len(line) - 1)
    ELSE line

\* str::lines: split after every "\n"; a line ends with "\n" or "\r\n"; a
\* last line without "\n" is a line too; a lone "\r" does not end a line.
RECURSIVE lines(_)
lines(str) ==
    IF str = <<>> THEN <<>>
    ELSE LET i == find_lf(str, 1)
         IN  IF i = 0 THEN <<str>>
             ELSE <<strip_line_end(SubSeq(str, 1, i - 1))>>
                  \o lines(SubSeq(str, i + 1, Len(str)))

\* i32::MAX
i32_MAX == 2147483647

digit_value(c) == (CHOOSE d \in 1 .. 10 : Digits[d] = c) - 1
is_digit(c) == \E d \in 1 .. 10 : Digits[d] = c

\* The digit loop of i32::from_str: acc is the number so far (not above 0 when
\* negative); checked_mul and checked_add (checked_sub) fail on overflow.
RECURSIVE parse_digits(_, _, _)
parse_digits(str, acc, negative) ==
    IF str = <<>> THEN [ok |-> TRUE, value |-> acc]
    ELSE IF ~is_digit(Head(str)) THEN [ok |-> FALSE, value |-> 0]
    ELSE LET d == digit_value(Head(str))
             mag == IF negative THEN 0 - acc ELSE acc
             limit == IF negative /\ d > 0 THEN (i32_MAX - (d - 1)) \div 10
                      ELSE IF negative THEN i32_MAX \div 10
                      ELSE (i32_MAX - d) \div 10
         IN  IF mag > limit THEN [ok |-> FALSE, value |-> 0]
             ELSE parse_digits(Tail(str),
                               IF negative THEN acc * 10 - d ELSE acc * 10 + d,
                               negative)

\* str::parse::<i32>(): an optional sign, then at least one digit.
parse_i32(str) ==
    IF str = <<>> THEN [ok |-> FALSE, value |-> 0]
    ELSE IF Head(str) \in {"+", "-"}
         THEN IF Len(str) = 1 THEN [ok |-> FALSE, value |-> 0]
              ELSE parse_digits(Tail(str), 0, Head(str) = "-")
    ELSE parse_digits(str, 0, FALSE)

unwrap_or_zero(r, default) == IF r.ok THEN r.value ELSE 0
\* .parse().unwrap_or(-1)
unwrap_or(r, default) == IF r.ok THEN r.value ELSE default

\* The match of poll_response on one trimmed line: the outcome that ends the
\* exchange, or "data" for a line handed to callback_function.
classify(line) ==
    IF line = OK THEN [kind |-> "Ok", code |-> 0]
    ELSE IF line = ERROR THEN [kind |-> "AtError::Error", code |-> 0]
    ELSE IF starts_with(line, CME_ERROR)
         THEN [kind |-> "AtError::CmeError",
               code |-> unwrap_or(parse_i32(trim(SubSeq(line, 12, Len(line)))), 0 - 1)]
    ELSE IF starts_with(line, CMS_ERROR)
         THEN [kind |-> "AtError::CmsError",
               code |-> unwrap_or(parse_i32(trim(SubSeq(line, 12, Len(line)))), 0 - 1)]
    ELSE [kind |-> "data", code |-> 0]

keeps_reading_lines == FALSE
\* What the loop does after a line that ended the exchange: break 'outer.
breaks_outer == TRUE

\* for line in s.lines(): [result, sink] after the lines i .. of the buffer.
RECURSIVE for_lines(_, _, _, _)
for_lines(ls, i, result, sink) ==
    IF i > Len(ls) THEN [result |-> result, sink |-> sink]
    ELSE LET line == trim(ls[i])
             c == classify(line)
         IN  IF c.kind = "data"
             THEN for_lines(ls, i + 1, result, Append(sink, line))
             ELSE IF breaks_outer THEN [result |-> c, sink |-> sink]
             ELSE for_lines(ls, i + 1, c, sink)

\* What the modem sends: the texts of wire lines and fragments of lines ...
Pieces == <<
    OK,
    ERROR,
    CME_ERROR \o <<" ", "3">>,
    CMS_ERROR \o <<"-", "7", " ">>,
    CME_ERROR \o <<" ", "x">>,
    CMS_ERROR \o <<"2", "1", "4", "7", "4", "8", "3", "6", "4", "8">>,
    <<"O">>,
    <<"K">>,
    <<"+", "C", ":", "1">>,
    <<>> >>
\* ... each followed by one of these terminators ...
Terminators == << <<CR, LF>>, <<LF>>, <<CR>>, <<>> >>
\* ... and each buffer ended by a NUL (a C string) or by nothing.
Framings == << <<NUL>>, <<>> >>

WireLine(p, t) == Pieces[p] \o Terminators[t]

ATFrame ==
    UNCHANGED <<heap, live, status, last, cs, primask, borrowed, ipc, net, boot, gnss, util>>

\* poll_response is called.
PollStart ==
    /\ at.pc = "idle"
    /\ at' = [ATIdle EXCEPT !.pc = "polling"]
    /\ ATFrame

\* self.recv(&mut buf)? returns Ok(None): nrf_recv gave -1 with NRF_EAGAIN;
\* the inner loop reads again (spins: the parity of the number of such results).
RecvWouldBlock ==
    /\ at.pc = "polling"
    /\ at' = [at EXCEPT !.spins = 1 - @]
    /\ ATFrame

\* self.recv(&mut buf)? returns Err: any other negative result; `?` returns it.
RecvError ==
    /\ at.pc = "polling"
    /\ at' = [at EXCEPT !.pc = "done",
                        !.result = [kind |-> "Nordic", code |-> 0 - 1]]
    /\ ATFrame

\* self.recv(&mut buf)? returns Ok(Some(0)): `length - 1` underflows and the
\* slice &buf[0..length - 1] panics.
RecvNothing ==
    /\ at.pc = "polling"
    /\ at' = [at EXCEPT !.pc = "panicked"]
    /\ ATFrame

\* The part of the bytes received so far that no "\n" has ended yet.
RECURSIVE unterminated(_)
unterminated(str) ==
    LET i == find_lf(str, 1)
    IN  IF i = 0 THEN str ELSE unterminated(SubSeq(str, i + 1, Len(str)))

\* One pass of the outer loop for a buffer of `length` bytes: the text is
\* buf[0 .. length - 1], without the last byte received.  Kept for the
\* properties: the bytes of this read (payload, and framing for its last
\* byte), the unterminated bytes of the reads before it (carry), the lines of
\* this buffer (last_lines) and the number of calls of callback_function
\* before it (last_sunk).
outer_pass(n, payload, framing) ==
    LET received == payload \o framing
        length == Len(received)
        str == SubSeq(received, 1, length - 1)
        ls == lines(str)
        r == for_lines(ls, 1, NoResult, at.sink)
    IN  at' = [at EXCEPT
                 !.pc = IF r.result.kind = "none" THEN "polling" ELSE "done",
                 !.result = r.result,
                 !.sink = r.sink,
                 !.pieces = @ + n,
                 !.nreads = @ + 1,
                 !.carry = unterminated(at.carry \o at.payload),
                 !.lf_before = at.lf_before \/ find_lf(at.payload, 1) # 0,
                 !.payload = payload,
                 !.framing = framing,
                 !.last_lines = ls,
                 !.last_sunk = Len(at.sink)]

\* self.recv(&mut buf)? returns Ok(Some(n)), n > 0, with one wire line.
RecvOne ==
    /\ at.pc = "polling"
    /\ at.pieces + 1 <= MaxPieces
    /\ \E p \in 1 .. Len(Pieces), t \in 1 .. Len(Terminators), f \in 1 .. Len(Framings) :
           /\ WireLine(p, t) \o Framings[f] # <<>>
           /\ outer_pass(1, WireLine(p, t), Framings[f])
    /\ ATFrame

\* self.recv(&mut buf)? returns Ok(Some(n)) with two wire lines in the buffer.
RecvTwo ==
    /\ at.pc = "polling"
    /\ at.pieces + 2 <= MaxPieces
    /\ \E p1, p2 \in 1 .. Len(Pieces), t1, t2 \in 1 .. Len(Terminators),
          f \in 1 .. Len(Framings) :
           LET payload == WireLine(p1, t1) \o WireLine(p2, t2)
           IN  /\ payload \o Framings[f] # <<>>
               /\ outer_pass(2, payload, Framings[f])
    /\ ATFrame

ATInit ==
    /\ heap = [h \in Heaps |-> NoHeap]
    /\ live = [h \in Heaps |-> {}]
    /\ status = "running"
    /\ last = NoOp
    /\ cs = CSIdle
    /\ primask = FALSE
    /\ borrowed = [h \in Heaps |-> 0]
    /\ at = ATIdle
    /\ ipc = IPCIdle
    /\ net = NetIdle
    /\ boot = BootIdle
    /\ gnss = GnssIdle
    /\ util = UtilIdle

ATNext ==
    \/ PollStart
    \/ RecvWouldBlock
    \/ RecvError
    \/ RecvNothing
    \/ RecvOne
    \/ RecvTwo

ATSpec == ATInit /\ [][ATNext]_vars

\* A turn of the inner loop that brings no data.
EmptyTurn == RecvWouldBlock \/ RecvError \/ RecvNothing

\* The same, with the program running on: the loops of poll_response never
\* wait (recv is called with NRF_MSG_DONTWAIT), so while it has not returned it
\* keeps calling recv; which result recv gives is left to the modem.  (The
\* turns that bring data are finitely many, so this is WF_vars(ATNext).)
ATLive == ATSpec /\ WF_vars(PollStart \/ EmptyTurn)

-----------------------------------------------------------------------------
(* src/ffi.rs: nrfx_ipc_init and ipc_irq_handler (specification IPCSpec).    *)
(* nrfx_ipc_init runs in thread context, step by step; the interrupt handler *)
(* preempts it and runs to its end before the thread goes on.                *)

Channels == 0 .. IpcChannels - 1
\* Addresses of handler functions and context pointers given to
\* nrfx_ipc_init.
HandlerAddrs == {1, 2}
ContextPtrs == {5, 6}

RECURSIVE Pow2(_)
Pow2(n) == IF n = 0 THEN 1 ELSE 2 * Pow2(n - 1)

BitSet(word, i) == (word \div Pow2(i)) % 2 = 1

\* INTPEND.read().bits(): one bit per asserted event register.
RECURSIVE intpend(_)
intpend(events) ==
    IF events = {} THEN 0
    ELSE LET i == CHOOSE x \in events : TRUE
         IN  Pow2(i) + intpend(events \ {i})

highest_one(word) == CHOOSE i \in Channels : BitSet(word, i) /\ \A j \in Channels : BitSet(word, j) => j <= i
\* u32::trailing_zeros of a word that is not 0: the index of its lowest 1.
trailing_zeros(word) == CHOOSE i \in Channels : BitSet(word, i) /\ \A j \in Channels : BitSet(word, j) => i <= j

\* bitmask ^ (1 << event_idx)
xor_bit(bitmask, event_idx) ==
    IF BitSet(bitmask, event_idx) THEN bitmask - Pow2(event_idx)
    ELSE bitmask + Pow2(event_idx)

reduced_mask(events_map, bitmask) == bitmask
\* The first argument of (handler)(events_map, context).
handler_argument(events_map, bitmask) == events_map

keeps_first_context(stored, p_context) == IF stored = 0 THEN p_context ELSE stored
\* The value IPC_CONTEXT.store(p_context, SeqCst) leaves in the static.
context_stored(stored, p_context) == p_context

IPCFrame ==
    UNCHANGED <<heap, live, status, last, cs, primask, borrowed, at, net, boot, gnss, util>>

\* The thread runs only while the interrupt handler does not.
ThreadRuns == ipc.isr.pc = "idle"

\* nrfx_ipc_init(irq_priority, handler, p_context) is called: NVIC::unmask
\* and the priority write.
IpcInitUnmask ==
    /\ ThreadRuns
    /\ ipc.init.pc = "idle"
    /\ ipc.nregs < MaxRegs
    /\ \E handler \in HandlerAddrs, p_context \in ContextPtrs :
           ipc' = [ipc EXCEPT !.nvic = TRUE,
                              !.nregs = @ + 1,
                              !.init = [pc |-> "unmasked", handler |-> handler,
                                        p_context |-> p_context]]
    /\ IPCFrame

\* IPC_CONTEXT.store(p_context, SeqCst)
IpcInitStoreContext ==
    /\ ThreadRuns
    /\ ipc.init.pc = "unmasked"
    /\ ipc' = [ipc EXCEPT !.IPC_CONTEXT = context_stored(@, ipc.init.p_context),
                          !.init.pc = "context_stored"]
    /\ IPCFrame

\* IPC_HANDLER.store(handler as usize, SeqCst); NrfxErr::Success is returned.
IpcInitStoreHandler ==
    /\ ThreadRuns
    /\ ipc.init.pc = "context_stored"
    /\ ipc' = [ipc EXCEPT !.IPC_HANDLER = ipc.init.handler,
                          !.lastreg = ipc.init,
                          !.prevreg = ipc.lastreg,
                          !.init = InitIdle]
    /\ IPCFrame

\* The modem signals on a channel: the event register is asserted.
ModemSignals ==
    /\ \E i \in Channels :
           /\ i \notin ipc.events
           /\ ipc' = [ipc EXCEPT !.events = @ \cup {i}]
    /\ IPCFrame

\* The IPC interrupt is taken and ipc_irq_handler reads INTPEND.
IsrRead ==
    /\ ipc.isr.pc = "idle"
    /\ ipc.nvic
    /\ ipc' = [ipc EXCEPT !.isr = [IsrIdle EXCEPT
                                     !.pc = "clearing",
                                     !.events_map = intpend(ipc.events),
                                     !.bitmask = intpend(ipc.events),
                                     !.during_init = ipc.init.pc # "idle"],
                          !.calls = <<>>,
                          !.runs = 1]
    /\ IPCFrame

\* One turn of `while bitmask != 0`: the lowest set bit is taken out of
\* bitmask and 0 is written to its event register.
IsrClear ==
    /\ ipc.isr.pc = "clearing"
    /\ ipc.isr.bitmask # 0
    /\ LET event_idx == trailing_zeros(ipc.isr.bitmask)
       IN  ipc' = [ipc EXCEPT !.isr.bitmask = xor_bit(@, event_idx),
                              !.isr.cleared = Append(@, event_idx),
                              !.events = @ \ {event_idx}]
    /\ IPCFrame

\* The loop has ended: IPC_HANDLER and IPC_CONTEXT are loaded.
IsrLoad ==
    /\ ipc.isr.pc = "clearing"
    /\ ipc.isr.bitmask = 0
    /\ ipc' = [ipc EXCEPT !.isr.pc = "loaded",
                          !.isr.handler_addr = ipc.IPC_HANDLER,
                          !.isr.context = ipc.IPC_CONTEXT]
    /\ IPCFrame

\* (handler)(events_map, context as *mut u8), and the return from the
\* interrupt.  A call through the address 0 (nothing stored yet) is
\* undefined: the model stops there (pc "undefined").  Kept with the call for
\* the properties: the event registers written before it (cleared), the bits
\* not yet taken out of bitmask (uncleared), whether the interrupt came
\* during nrfx_ipc_init, and the last completed registration.
IsrCall ==
    /\ ipc.isr.pc = "loaded"
    /\ IF ipc.isr.handler_addr = 0
       THEN ipc' = [ipc EXCEPT !.isr.pc = "undefined"]
       ELSE ipc' = [ipc EXCEPT
                      !.isr.pc = "idle",
                      !.calls = Append(@,
                          [handler |-> ipc.isr.handler_addr,
                           event_mask |-> handler_argument(ipc.isr.events_map,
                                                           ipc.isr.bitmask),
                           ptr |-> ipc.isr.context,
                           cleared |-> ipc.isr.cleared,
                           uncleared |-> ipc.isr.bitmask,
                           during_init |-> ipc.isr.during_init,
                           registered |-> ipc.lastreg])]
    /\ IPCFrame

IPCInit ==
    /\ heap = [h \in Heaps |-> NoHeap]
    /\ live = [h \in Heaps |-> {}]
    /\ status = "running"
    /\ last = NoOp
    /\ cs = CSIdle
    /\ primask = FALSE
    /\ borrowed = [h \in Heaps |-> 0]
    /\ at = ATIdle
    /\ ipc = IPCIdle
    /\ net = NetIdle
    /\ boot = BootIdle
    /\ gnss = GnssIdle
    /\ util = UtilIdle

IPCNext ==
    \/ IpcInitUnmask
    \/ IpcInitStoreContext
    \/ IpcInitStoreHandler
    \/ ModemSignals
    \/ IsrRead
    \/ IsrClear
    \/ IsrLoad
    \/ IsrCall

IPCSpec == IPCInit /\ [][IPCNext]_vars

-----------------------------------------------------------------------------
(* src/raw.rs, tcp.rs, tls.rs, dtls.rs, at.rs, gnss.rs: the socket values   *)
(* and the library calls they make (specification NetSpec).  Each operation *)
(* is one action: the library's results are its inputs, and the calls it    *)
(* makes are kept, in order, in net.op.calls.                               *)

\* Results of nrf_socket's failure, nrf_setsockopt, nrf_write, nrf_recv.
Failure == 0 - 1
\* Return codes of nrf_getaddrinfo and of nrf_connect; 0 is success.
ResolverRets == {0, 0 - 1, 2}
ConnectRets == {0, 0 - 1, 0 - 2}
\* The value of get_last_error(); the operations only copy it into the error.
Errnos == {11}
\* sys::NRF_EAGAIN
NRF_EAGAIN == 11
\* What nrf_recv returns, and the values LAST_ERROR has when Socket::recv
\* loads it.
RecvRets == {0 - 2, 0 - 1, 0, 1, 256}
RecvErrnos == {NRF_EAGAIN, 22}
\* Arguments and results of provision_certificates: the tag, and what
\* nrf_inbuilt_key_delete and nrf_inbuilt_key_write return.
Tags == {7}
DeleteRets == {0, 0 - 1}
WriteRets == {0, 0 - 1, 1}
\* Ports and lengths of hostnames the application passes.
Ports == {80, 443}
HostnameLens == {9, 64}
\* heapless::String<U64>: the capacity of hostname_smallstring.
U64 == 64

Ok == [kind |-> "Ok", tag |-> "", code |-> 0, errno |-> 0]
Nordic(tag, code, errno) == [kind |-> "Nordic", tag |-> tag, code |-> code, errno |-> errno]
HostnameTooLong == [kind |-> "HostnameTooLong", tag |-> "", code |-> 0, errno |-> 0]
\* The dereference of a null list pointer: undefined.
Undefined == [kind |-> "undefined", tag |-> "", code |-> 0, errno |-> 0]

\* One call of the library; fd is -1 for a call that names no descriptor.
Call(fn, fd, opt, port, addr, ret) ==
    [fn |-> fn, fd |-> fd, opt |-> opt, port |-> port, addr |-> addr, ret |-> ret]

\* The descriptors open after the calls, and whether one of the calls named a
\* descriptor that was not open.
RECURSIVE library_after(_, _)
library_after(lib, calls) ==
    IF calls = <<>> THEN lib
    ELSE LET c == Head(calls)
             next ==
                 IF c.fn = "nrf_socket"
                 THEN (IF c.ret >= 0 THEN [lib EXCEPT !.open = @ \cup {c.ret}] ELSE lib)
                 ELSE IF c.fd < 0 THEN lib
                 ELSE IF c.fd \notin lib.open THEN [lib EXCEPT !.faults = TRUE]
                 ELSE IF c.fn = "nrf_close" THEN [lib EXCEPT !.open = @ \ {c.fd}]
                 ELSE lib
         IN  library_after(next, Tail(calls))

\* Socket::new
Socket_new(r, errno) ==
    [calls |-> <<Call("nrf_socket", 0 - 1, "", 0, 0, r)>>,
     result |-> IF r < 0 THEN Nordic("new_socket", r, errno) ELSE Ok,
     fd |-> r]

\* Socket::set_option: the call, and whether it failed.
set_option(fd, option, r) == Call("nrf_setsockopt", fd, option, 0, 0, r)
set_option_never_fails(r) == FALSE
set_option_failed(r) == r < 0

never_closes(fd) == <<>>
\* Drop for Socket
Socket_drop(fd) == <<Call("nrf_close", fd, "", 0, 0, 0)>>

forgets_the_socket(fd) == <<>>
\* `?` returning from a constructor whose local `socket` is alive: the local
\* is dropped.
drop_on_error_return(fd) == Socket_drop(fd)

\* The options the calls have set.
applied(calls) ==
    {calls[k].opt : k \in {j \in 1 .. Len(calls) :
                             calls[j].fn = "nrf_setsockopt" /\ calls[j].ret >= 0}}

\* enum PeerVerification
PeerVerifications == {"Enabled", "Optional", "Disabled"}

\* PeerVerification::as_integer of tls.rs
tls_as_integer(self) ==
    CASE self = "Enabled" -> 2
      [] self = "Optional" -> 1
      [] self = "Disabled" -> 0

as_boolean(self) ==
    CASE self = "Enabled" -> 1
      [] self = "Optional" -> 1
      [] self = "Disabled" -> 0
\* PeerVerification::as_integer of dtls.rs
dtls_as_integer(self) ==
    CASE self = "Enabled" -> 2
      [] self = "Optional" -> 1
      [] self = "Disabled" -> 0

\* socket.set_option(SocketOption::TlsPeerVerify(peer_verify.as_integer())):
\* the value the option carries is what nrf_setsockopt is given.
set_peer_verify(kind, fd, peer_verify, r) ==
    Call("nrf_setsockopt", fd, "TlsPeerVerify", 0,
         IF kind = "TlsSocket" THEN tls_as_integer(peer_verify)
         ELSE dtls_as_integer(peer_verify), r)

\* TlsSocket::new and DtlsSocket::new
tls_new(kind, peer_verify, security_tags_given, r, r1, r2, r3, errno) ==
    LET s == Socket_new(r, errno)
        c1 == set_peer_verify(kind, r, peer_verify, r1)
        c2 == set_option(r, "TlsSessionCache", r2)
        c3 == set_option(r, "TlsTagList", r3)
        failed(calls, code) ==
            [calls |-> s.calls \o calls \o drop_on_error_return(r),
             result |-> Nordic("set_option", code, errno), value |-> NoValue]
    IN  IF r < 0 THEN [calls |-> s.calls, result |-> s.result, value |-> NoValue]
        ELSE IF set_option_failed(r1) THEN failed(<<c1>>, r1)
        ELSE IF set_option_failed(r2) THEN failed(<<c1, c2>>, r2)
        ELSE IF security_tags_given /\ set_option_failed(r3)
             THEN failed(<<c1, c2, c3>>, r3)
        ELSE LET calls == <<c1, c2>> \o (IF security_tags_given THEN <<c3>> ELSE <<>>)
             IN  [calls |-> s.calls \o calls, result |-> Ok,
                  value |-> [kind |-> kind, fd |-> r, options |-> applied(calls)]]

no_swap(input) == input
\* htons
htons(input) ==
    LET top == (input \div 256) % 256
        bottom == input % 256
    IN  bottom * 256 + top

\* The loop over the address records in connect, from record i on: rets[i] is
\* what nrf_connect returns for record i.
RECURSIVE connect_loop(_, _, _, _)
connect_loop(fd, port, rets, i) ==
    LET c == Call("nrf_connect", fd, "", htons(port), i, rets[i])
    IN  IF rets[i] = 0 \/ i = Len(rets) THEN <<c>>
        ELSE <<c>> \o connect_loop(fd, port, rets, i + 1)

\* write!(hostname_smallstring, "{}\0", hostname) succeeds.
hostname_fits_without_nul(len) == len <= U64
hostname_fits(len) == len + 1 <= U64

\* TcpSocket::connect; rets = <<>> is a null list pointer.
tcp_connect(fd, hostname_len, res, rets, port, errno) ==
    IF ~hostname_fits(hostname_len) THEN [calls |-> <<>>, result |-> HostnameTooLong]
    ELSE LET g == Call("nrf_getaddrinfo", 0 - 1, "", 0, 0, res)
             walked == res = 0 /\ rets # <<>>
             loop == IF walked
                     THEN connect_loop(fd, port, rets, 1)
                          \o <<Call("nrf_freeaddrinfo", 0 - 1, "", 0, 0, 0)>>
                     ELSE <<>>
             result == IF walked THEN loop[Len(loop) - 1].ret ELSE res
         IN  [calls |-> <<g>> \o loop,
              result |-> IF result # 0 THEN Nordic("tcp_connect", result, errno) ELSE Ok]

\* TlsSocket::connect (prefix "tls") and DtlsSocket::connect (prefix "dtls").
tls_connect(prefix, fd, rh, hostname_len, res, rets, port, errno) ==
    LET h == set_option(fd, "TlsHostName", rh)
        g == Call("nrf_getaddrinfo", 0 - 1, "", 0, 0, res)
    IN  IF set_option_failed(rh)
        THEN [calls |-> <<h>>, result |-> Nordic("set_option", rh, errno)]
        ELSE IF ~hostname_fits(hostname_len)
        THEN [calls |-> <<h>>, result |-> HostnameTooLong]
        ELSE IF res # 0 /\ rets = <<>>
        THEN [calls |-> <<h, g>>,
              result |-> Nordic(IF prefix = "tls" THEN "tls_dns" ELSE "dtls_dns", res, errno)]
        ELSE IF rets = <<>>
        THEN [calls |-> <<h, g>>, result |-> Undefined]
        ELSE LET loop == connect_loop(fd, port, rets, 1)
                 result == loop[Len(loop)].ret
             IN  [calls |-> <<h, g>> \o loop
                            \o <<Call("nrf_freeaddrinfo", 0 - 1, "", 0, 0, 0)>>,
                  result |-> IF result # 0
                             THEN Nordic(IF prefix = "tls" THEN "tls_connect"
                                         ELSE "dtls_connect", result, errno)
                             ELSE Ok]

\* send_at_command: AtSocket::new, send_command, poll_response, and the drop
\* of skt at the end of the function.  poll is what poll_response returns.
send_at_command(r, w, poll, errno) ==
    LET s == Socket_new(r, errno)
        wr == Call("nrf_write", r, "", 0, 0, w)
        rd == Call("nrf_recv", r, "", 0, 0, IF poll.kind = "Nordic" THEN poll.code ELSE 1)
    IN  IF r < 0 THEN [calls |-> s.calls, result |-> s.result]
        ELSE IF w < 0
        THEN [calls |-> s.calls \o <<wr>> \o drop_on_error_return(r),
              result |-> Nordic("write", w, errno)]
        ELSE [calls |-> s.calls \o <<wr, rd>> \o Socket_drop(r), result |-> poll]

\* What poll_response returns to send_at_command.
PollResults(errno) ==
    {Ok, Nordic("recv", Failure, errno),
     [kind |-> "AtError::Error", tag |-> "", code |-> 0, errno |-> 0]}

\* A load of LAST_ERROR (get_last_error), kept among the calls.
get_last_error(value) == Call("get_last_error", 0 - 1, "", 0, 0, value)
None == [kind |-> "None", tag |-> "", code |-> 0, errno |-> 0]
Some(n) == [kind |-> "Some", tag |-> "", code |-> n, errno |-> 0]

would_block_any_error(result, loaded) == result = 0 - 1
\* result == -1 && get_last_error() == sys::NRF_EAGAIN as i32
would_block(result, loaded) == result = 0 - 1 /\ loaded = NRF_EAGAIN

\* Socket::recv: LAST_ERROR is loaded for the comparison only when result is
\* -1 (&& does not evaluate its right side otherwise), and again for the error.
recv(fd, result, first, second) ==
    LET rd == Call("nrf_recv", fd, "NRF_MSG_DONTWAIT", 0, 0, result)
        compared == IF result = 0 - 1 THEN <<get_last_error(first)>> ELSE <<>>
    IN  IF would_block(result, first)
        THEN [calls |-> <<rd>> \o compared, result |-> None]
        ELSE IF result < 0
        THEN [calls |-> <<rd>> \o compared \o <<get_last_error(second)>>,
              result |-> Nordic("recv", result, second)]
        ELSE [calls |-> <<rd>> \o compared, result |-> Some(result)]

\* The credential types in the order of the delete loop, and the name each
\* write goes by in the error.
cred_types == <<"CA_CHAIN", "PUBLIC_CERT", "PRIVATE_CERT">>
write_names == <<"ca_chain write", "public_cert write", "private_cert write">>

only_negative_fails(res) == res < 0
\* if res != 0 { return Err(...) }
write_failed(res) == res # 0

\* The writes of provision_certificates from slot i on: supplied[i] says
\* whether the argument is Some, res[i] what nrf_inbuilt_key_write returns.
RECURSIVE key_writes(_, _, _, _, _)
key_writes(tag, supplied, res, errno, i) ==
    IF i > Len(cred_types) THEN [calls |-> <<>>, result |-> Ok]
    ELSE IF ~supplied[i] THEN key_writes(tag, supplied, res, errno, i + 1)
    ELSE LET c == Call("nrf_inbuilt_key_write", 0 - 1, cred_types[i], 0, tag, res[i])
             rest == key_writes(tag, supplied, res, errno, i + 1)
         IN  IF write_failed(res[i])
             THEN [calls |-> <<c>>, result |-> Nordic(write_names[i], res[i], errno)]
             ELSE [calls |-> <<c>> \o rest.calls, result |-> rest.result]

\* provision_certificates
provision_certificates(tag, supplied, dels, res, errno) ==
    LET deletes == [i \in 1 .. Len(cred_types) |->
                       Call("nrf_inbuilt_key_delete", 0 - 1, cred_types[i], 0, tag, dels[i])]
        writes == key_writes(tag, supplied, res, errno, 1)
    IN  [calls |-> deletes \o writes.calls, result |-> writes.result,
         supplied |-> supplied]

NetFrame ==
    UNCHANGED <<heap, live, status, last, cs, primask, borrowed, at, ipc, boot, gnss, util>>

\* The operation `done` has run: its calls reach the library.
performed(name, kind, slot, port, naddrs, done, values) ==
    LET lib == library_after([open |-> net.open, faults |-> net.faults], done.calls)
    IN  net' = [pc |-> IF done.result.kind = "undefined" THEN "undefined" ELSE "idle",
                values |-> values, open |-> lib.open, faults |-> lib.faults,
                op |-> [name |-> name, kind |-> kind, slot |-> slot, port |-> port,
                        naddrs |-> naddrs,
                        supplied |-> IF "supplied" \in DOMAIN done THEN done.supplied
                                     ELSE <<>>,
                        calls |-> done.calls, result |-> done.result]]

\* What nrf_socket can return: a descriptor that is not open, or a failure.
SocketRets == {Failure} \cup (Fds \ net.open)
Empty(slot) == net.values[slot].kind = "none"

\* AtSocket::new, TcpSocket::new, GnssSocket::new: Socket::new and the wrapper.
wrapper_new(kind) ==
    /\ net.pc = "idle"
    /\ \E slot \in Slots, r \in SocketRets, errno \in Errnos :
           /\ Empty(slot)
           /\ LET s == Socket_new(r, errno)
                  value == IF r < 0 THEN NoValue
                           ELSE [kind |-> kind, fd |-> r, options |-> {}]
              IN  performed("new", kind, slot, 0, 0, s,
                            [net.values EXCEPT ![slot] = value])
    /\ NetFrame

AtSocket_new == wrapper_new("AtSocket")
TcpSocket_new == wrapper_new("TcpSocket")
GnssSocket_new == wrapper_new("GnssSocket")

constructor(kind) ==
    /\ net.pc = "idle"
    /\ \E slot \in Slots, r \in SocketRets, r1, r2, r3 \in {0, Failure},
          security_tags_given \in BOOLEAN, errno \in Errnos,
          peer_verify \in PeerVerifications :
           /\ Empty(slot)
           /\ LET made == tls_new(kind, peer_verify, security_tags_given, r, r1, r2,
                                  r3, errno)
                  done == [calls |-> made.calls, result |-> made.result,
                           supplied |-> <<peer_verify>>]
              IN  performed("new", kind, slot, 0, 0, done,
                            [net.values EXCEPT ![slot] = made.value])
    /\ NetFrame

TlsSocket_new == constructor("TlsSocket")
DtlsSocket_new == constructor("DtlsSocket")

\* A socket value other than a GnssSocket goes out of scope.
Drop ==
    /\ net.pc = "idle"
    /\ \E slot \in Slots :
           /\ net.values[slot].kind \notin {"none", "GnssSocket"}
           /\ performed("drop", net.values[slot].kind, slot, 0, 0,
                        [calls |-> Socket_drop(net.values[slot].fd), result |-> Ok],
                        [net.values EXCEPT ![slot] = NoValue])
    /\ NetFrame

\* Drop for GnssSocket: self.stop(), then the drop of the Socket inside.
GnssSocket_drop ==
    /\ net.pc = "idle"
    /\ \E slot \in Slots, r \in {0, Failure} :
           /\ net.values[slot].kind = "GnssSocket"
           /\ performed("drop", "GnssSocket", slot, 0, 0,
                        [calls |-> <<set_option(net.values[slot].fd, "GnssStop", r)>>
                                   \o Socket_drop(net.values[slot].fd),
                         result |-> Ok],
                        [net.values EXCEPT ![slot] = NoValue])
    /\ NetFrame

\* The lists nrf_getaddrinfo can give: rets[i] for each record; <<>> is null.
RECURSIVE AddrLists(_)
AddrLists(n) ==
    IF n = 0 THEN {<<>>}
    ELSE AddrLists(n - 1)
         \cup {Append(l, c) : l \in {m \in AddrLists(n - 1) : Len(m) = n - 1},
                              c \in ConnectRets}

TcpSocket_connect ==
    /\ net.pc = "idle"
    /\ \E slot \in Slots, hostname_len \in HostnameLens, res \in ResolverRets,
          rets \in AddrLists(MaxAddrs), port \in Ports, errno \in Errnos :
           /\ net.values[slot].kind = "TcpSocket"
           /\ LET done == tcp_connect(net.values[slot].fd, hostname_len, res, rets,
                                      port, errno)
              IN  performed("connect", "TcpSocket", slot, port, Len(rets),
                            [calls |-> done.calls, result |-> done.result,
                             supplied |-> <<hostname_len>>],
                            net.values)
    /\ NetFrame

secure_connect(kind, prefix) ==
    /\ net.pc = "idle"
    /\ \E slot \in Slots, rh \in {0, Failure}, hostname_len \in HostnameLens,
          res \in ResolverRets, rets \in AddrLists(MaxAddrs), port \in Ports,
          errno \in Errnos :
           /\ net.values[slot].kind = kind
           /\ LET done == tls_connect(prefix, net.values[slot].fd, rh, hostname_len,
                                      res, rets, port, errno)
              IN  performed("connect", kind, slot, port, Len(rets),
                            [calls |-> done.calls, result |-> done.result,
                             supplied |-> <<hostname_len>>],
                            [net.values EXCEPT
                               ![slot].options = @ \cup applied(done.calls)])
    /\ NetFrame

TlsSocket_connect == secure_connect("TlsSocket", "tls")
DtlsSocket_connect == secure_connect("DtlsSocket", "dtls")

\* Socket::write on a value the application holds.
Socket_write ==
    /\ net.pc = "idle"
    /\ \E slot \in Slots, w \in {Failure, 1}, errno \in Errnos :
           /\ ~Empty(slot)
           /\ performed("write", net.values[slot].kind, slot, 0, 0,
                        [calls |-> <<Call("nrf_write", net.values[slot].fd, "", 0, 0, w)>>,
                         result |-> IF w < 0 THEN Nordic("write", w, errno) ELSE Ok],
                        net.values)
    /\ NetFrame

SendAtCommand ==
    /\ net.pc = "idle"
    /\ \E r \in SocketRets, w \in {Failure, 1}, errno \in Errnos :
       \E poll \in PollResults(errno) :
           performed("send_at_command", "AtSocket", 0, 0, 0,
                     send_at_command(r, w, poll, errno), net.values)
    /\ NetFrame

\* Socket::recv on a value the application holds.
Socket_recv ==
    /\ net.pc = "idle"
    /\ \E slot \in Slots, result \in RecvRets, first, second \in RecvErrnos :
           /\ ~Empty(slot)
           /\ performed("recv", net.values[slot].kind, slot, 0, 0,
                        recv(net.values[slot].fd, result, first, second), net.values)
    /\ NetFrame

\* provision_certificates(tag, ca_chain, public_cert, key); op.port is the tag.
ProvisionCertificates ==
    /\ net.pc = "idle"
    /\ \E tag \in Tags, supplied \in [1 .. 3 -> BOOLEAN], dels \in [1 .. 3 -> DeleteRets],
          res \in [1 .. 3 -> WriteRets], errno \in Errnos :
           performed("provision_certificates", "none", 0, tag, 0,
                     provision_certificates(tag, supplied, dels, res, errno), net.values)
    /\ NetFrame

NetInit ==
    /\ heap = [h \in Heaps |-> NoHeap]
    /\ live = [h \in Heaps |-> {}]
    /\ status = "running"
    /\ last = NoOp
    /\ cs = CSIdle
    /\ primask = FALSE
    /\ borrowed = [h \in Heaps |-> 0]
    /\ at = ATIdle
    /\ ipc = IPCIdle
    /\ net = NetIdle
    /\ boot = BootIdle
    /\ gnss = GnssIdle
    /\ util = UtilIdle

NetNext ==
    \/ AtSocket_new
    \/ TcpSocket_new
    \/ GnssSocket_new
    \/ TlsSocket_new
    \/ DtlsSocket_new
    \/ Drop
    \/ GnssSocket_drop
    \/ TcpSocket_connect
    \/ TlsSocket_connect
    \/ DtlsSocket_connect
    \/ Socket_write
    \/ Socket_recv
    \/ SendAtCommand

NetSpec == NetInit /\ [][NetNext]_vars

\* provision_certificates uses no socket: the calls of it alone.
ProvisionSpec == NetInit /\ [][ProvisionCertificates]_vars

-----------------------------------------------------------------------------
(* lib.rs init() step by step, with the callbacks of the modem library      *)
(* (specification BootSpec).  nrf_modem_init runs the start-up of the       *)
(* library, which allocates through the callbacks before it returns.        *)

\* Calls of init() in one run.
MaxInits == 2
\* What sys::nrf_modem_init returns.
InitRets == {0, 0 - 1}

\* *LIBRARY_ALLOCATOR.borrow(cs).borrow_mut() = Some(Heap::new(heap_start, heap_size))
library_heap == Heap_new(GenBase, GenHeapSize)

tx_heap_left_out == NoHeap
\* *TX_ALLOCATOR.borrow(cs).borrow_mut() = Some(Heap::new(tx.base, tx.size))
tx_heap == Heap_new(TxBase, TxHeapSize)

BootFrame == UNCHANGED <<live, cs, primask, borrowed, at, ipc, net, gnss, util>>

\* The assignment of a new heap to the static h, as init() makes it: nothing
\* is tested before it.  The blocks handed out from the old heap stay with
\* the library; a hole of the new heap that covers one of them is the
\* corruption the allocator model stops at.
install(h, hp, pc) ==
    /\ heap' = [heap EXCEPT ![h] = hp]
    /\ status' = IF hp.present /\ Corrupted(hp, live[h]) THEN "corrupt" ELSE status
    /\ last' = [NoOp EXCEPT !.op = "init", !.h = h]
    /\ boot' = [boot EXCEPT !.pc = pc,
                            !.inits = IF boot.pc = "idle" THEN @ + 1 ELSE @,
                            !.installs[h] = @ + 1,
                            !.discarded = @ \/ live[h] # {}]
    /\ BootFrame

\* init(), first critical section: the general heap.
InitLibraryHeap ==
    /\ status = "running"
    /\ boot.pc = "idle"
    /\ boot.inits < MaxInits
    /\ install("GENERIC_ALLOCATOR", library_heap, "general")

\* init(), second critical section: the transmit heap.
InitTxHeap ==
    /\ status = "running"
    /\ boot.pc = "general"
    /\ install("TX_ALLOCATOR", tx_heap, "tx")

\* init() calls sys::nrf_modem_init: the library starts.
InitStart ==
    /\ status = "running"
    /\ boot.pc = "tx"
    /\ boot' = [boot EXCEPT !.pc = "starting", !.started = TRUE]
    /\ UNCHANGED <<heap, status, last>>
    /\ BootFrame

\* nrf_modem_init returns and init() returns Ok(()) or the error.
InitReturn ==
    /\ status = "running"
    /\ boot.pc = "starting"
    /\ \E result \in InitRets, errno \in Errnos :
          boot' = [boot EXCEPT !.pc = "idle",
                               !.result = IF result < 0
                                          THEN Nordic("init", result, errno)
                                          ELSE Ok]
    /\ UNCHANGED <<heap, status, last>>
    /\ BootFrame

\* The sizes the library asks for here: one word, and the largest request.
BootSizes == {usize_size, MaxReq}

\* A callback of the running library: nrf_modem_os_alloc, nrf_modem_os_free,
\* nrf_modem_os_shm_tx_alloc or nrf_modem_os_shm_tx_free.  init() may be
\* anywhere (a second call of init() is interrupted between its critical
\* sections).
Callback ==
    /\ status = "running"
    /\ boot.started
    /\ \E h \in Heaps :
          \/ \E num_bytes \in BootSizes : alloc_call(h, num_bytes, FALSE)
          \/ \E b \in live[h] : free_call(h, b)
    /\ AllocIdle

BootNext ==
    \/ InitLibraryHeap
    \/ InitTxHeap
    \/ InitStart
    \/ InitReturn
    \/ Callback

BootSpec == Init /\ [][BootNext]_vars

-----------------------------------------------------------------------------
(* src/gnss.rs: reading a frame from the GNSS socket and decoding it *)

\* The text member of the frame is [u8; 83]; the model's text field has
\* FieldLen bytes, and the other members of the union lie over the same bytes.
FieldLen == 3
\* NUL, LF, CR, 'A', and the two bytes of U+00E9 (0xC3 0xA9), which alone or
\* in the wrong order are not UTF-8.
Bytes == {0, 10, 13, 65, 169, 195}
NRF_GNSS_PVT_DATA_ID == 1
NRF_GNSS_NMEA_DATA_ID == 2
NRF_GNSS_AGPS_DATA_ID == 3
NRF_GNSS_PVT_FLAG_FIX_VALID_BIT == 1
DataIds == {0, NRF_GNSS_PVT_DATA_ID, NRF_GNSS_NMEA_DATA_ID, NRF_GNSS_AGPS_DATA_ID, 4}
\* What nrf_recv returns for the frame read, and LAST_ERROR at that time.
GnssCounts == {0 - 2, 0 - 1, 0, 1, FieldLen + 1}
GnssErrnos == {NRF_EAGAIN, 22}
\* The bytes of the frame after the read: those the library did not write
\* are uninitialised, so every content is possible.
Frames == [data_id : DataIds, bytes : [1..FieldLen -> Bytes]]

\* frame.__bindgen_anon_1.pvt, .nmea and .agps: three views of the same bytes.
pvt(frame) == [flags |-> frame.bytes[1]]
nmea(frame) == frame.bytes
agps(frame) == frame.bytes

BadDataFormat == [kind |-> "BadDataFormat", tag |-> "", code |-> 0, errno |-> 0]
SomeData == [kind |-> "Some", tag |-> "", code |-> 0, errno |-> 0]
Position(p) == [variant |-> "Position", buffer |-> <<>>, length |-> 0, flags |-> p.flags]
Nmea(buffer, length) == [variant |-> "Nmea", buffer |-> buffer, length |-> length, flags |-> 0]
Agps(a) == [variant |-> "Agps", buffer |-> a, length |-> 0, flags |-> 0]

\* .find(|x| x.1 == b'\0' || x.1 == b'\r' || x.1 == b'\n'): the 0-based index
\* of the first such byte from position i on, or -1 for None.
RECURSIVE find(_, _)
find(text, i) ==
    IF i > Len(text) THEN 0 - 1
    ELSE IF text[i] = 0 \/ text[i] = 13 \/ text[i] = 10 THEN i - 1
    ELSE find(text, i + 1)

string_length_or_whole(text) ==
    IF find(text, 1) < 0 THEN Len(text) ELSE find(text, 1)
\* .map(|x| x.0).unwrap_or(0)
string_length(text) ==
    IF find(text, 1) < 0 THEN 0 ELSE find(text, 1)

\* core::str::from_utf8(v).is_ok(): the validation of the standard library,
\* by the range of the first byte and of the bytes that follow it.
RECURSIVE run_utf8_validation(_, _)
run_utf8_validation(v, i) ==
    IF i > Len(v) THEN TRUE
    ELSE LET first == v[i]
             next(k, lo, hi) == i + k <= Len(v) /\ v[i + k] >= lo /\ v[i + k] <= hi
         IN  IF first < 128 THEN run_utf8_validation(v, i + 1)
             ELSE IF first >= 194 /\ first <= 223
             THEN next(1, 128, 191) /\ run_utf8_validation(v, i + 2)
             ELSE IF first = 224
             THEN next(1, 160, 191) /\ next(2, 128, 191)
                  /\ run_utf8_validation(v, i + 3)
             ELSE IF (first >= 225 /\ first <= 236) \/ first = 238 \/ first = 239
             THEN next(1, 128, 191) /\ next(2, 128, 191)
                  /\ run_utf8_validation(v, i + 3)
             ELSE IF first = 237
             THEN next(1, 128, 159) /\ next(2, 128, 191)
                  /\ run_utf8_validation(v, i + 3)
             ELSE IF first = 240
             THEN next(1, 144, 191) /\ next(2, 128, 191) /\ next(3, 128, 191)
                  /\ run_utf8_validation(v, i + 4)
             ELSE IF first >= 241 /\ first <= 243
             THEN next(1, 128, 191) /\ next(2, 128, 191) /\ next(3, 128, 191)
                  /\ run_utf8_validation(v, i + 4)
             ELSE IF first = 244
             THEN next(1, 128, 143) /\ next(2, 128, 191) /\ next(3, 128, 191)
                  /\ run_utf8_validation(v, i + 4)
             ELSE FALSE
accepts_any_bytes(v) == TRUE
from_utf8_is_ok(v) == run_utf8_validation(v, 1)

try_again_never(err) == FALSE
\* if err == sys::NRF_EAGAIN as i32
try_again(err) == err = NRF_EAGAIN

is_pvt(data_id) == data_id = NRF_GNSS_PVT_DATA_ID
is_nmea(data_id) == data_id = NRF_GNSS_NMEA_DATA_ID
is_agps_or_unknown(data_id) == ~is_pvt(data_id) /\ ~is_nmea(data_id)
\* else if frame.data_id as u32 == sys::NRF_GNSS_AGPS_DATA_ID
is_agps(data_id) == data_id = NRF_GNSS_AGPS_DATA_ID

\* GnssSocket::process_fix: result is what nrf_recv returned, err the value of
\* LAST_ERROR (loaded in the negative arm only), frame the bytes behind the
\* MaybeUninit.
process_fix(result, err, frame) ==
    IF result = 0
    THEN [result |-> None, data |-> NoData, read |-> FALSE, member |-> "none"]
    ELSE IF result < 0
    THEN IF try_again(err)
         THEN [result |-> None, data |-> NoData, read |-> FALSE, member |-> "none"]
         ELSE [result |-> Nordic("get_fix", result, err), data |-> NoData,
               read |-> FALSE, member |-> "none"]
    ELSE IF is_pvt(frame.data_id)
    THEN [result |-> SomeData, data |-> Position(pvt(frame)), read |-> TRUE,
          member |-> "pvt"]
    ELSE IF is_nmea(frame.data_id)
    THEN LET text == nmea(frame)
             length == string_length(text)
         IN  IF from_utf8_is_ok(SubSeq(text, 1, length))
             THEN [result |-> SomeData, data |-> Nmea(text, length), read |-> TRUE,
                   member |-> "nmea"]
             ELSE [result |-> BadDataFormat, data |-> NoData, read |-> TRUE,
                   member |-> "nmea"]
    ELSE IF is_agps(frame.data_id)
    THEN [result |-> SomeData, data |-> Agps(agps(frame)), read |-> TRUE,
          member |-> "agps"]
    ELSE [result |-> BadDataFormat, data |-> NoData, read |-> TRUE, member |-> "none"]

\* a & b on bytes.
RECURSIVE BitAnd(_, _)
BitAnd(a, b) ==
    IF a = 0 \/ b = 0 THEN 0
    ELSE (a % 2) * (b % 2) + 2 * BitAnd(a \div 2, b \div 2)

is_valid_any_flag(data) ==
    data.variant = "Position" /\ data.flags # 0
\* GnssData::is_valid
is_valid(data) ==
    IF data.variant = "Position"
    THEN BitAnd(data.flags, NRF_GNSS_PVT_FLAG_FIX_VALID_BIT) # 0
    ELSE FALSE

GnssFrame ==
    UNCHANGED <<heap, live, status, last, cs, primask, borrowed, at, ipc, net, boot,
                util>>

\* The read of a frame: nrf_recv with the given flags, then process_fix.
read_fix(call) ==
    /\ gnss.pc = "idle"
    /\ \E count \in GnssCounts, err \in GnssErrnos, frame \in Frames :
          gnss' = [pc |-> "done", call |-> call, count |-> count, errno |-> err,
                   frame |-> frame, out |-> process_fix(count, err, frame),
                   valid |-> FALSE]
    /\ GnssFrame

get_fix == read_fix("get_fix")

get_fix_blocking == read_fix("get_fix_blocking")

\* data.is_valid() on the value a read returned.
IsValid ==
    /\ gnss.pc = "done"
    /\ gnss.out.result = SomeData
    /\ gnss' = [gnss EXCEPT !.pc = "checked", !.valid = is_valid(gnss.out.data)]
    /\ GnssFrame

\* The caller is done with the result of the read.
GnssDone ==
    /\ gnss.pc \in {"done", "checked"}
    /\ gnss' = GnssIdle
    /\ GnssFrame

GnssInit == NetInit

GnssNext ==
    \/ get_fix
    \/ get_fix_blocking
    \/ IsValid
    \/ GnssDone

GnssSpec == GnssInit /\ [][GnssNext]_vars

-----------------------------------------------------------------------------
(* src/raw.rs poll and src/ffi.rs nrf_modem_os_timedwait (specification     *)
(* UtilSpec)                                                                *)

\* const MAX_SOCKETS_POLL: usize = 8; the model's lists are shorter.
MAX_SOCKETS_POLL == 2
\* What nrf_poll returns: failure codes, timeout, a number of ready sockets.
PollRets == {0 - 2, 0 - 1, 0, 1, 2}
\* PollResult::default() and a result left by an earlier poll.
EarlierResults == {0, 16}
\* nrf_pollfd.returned as the library sets it: NRF_POLLIN, NRF_POLLOUT.
Returned == {1, 4}
\* The lists of n entries: entry i polls the descriptor i - 1 for reading.
PollLists(n) ==
    {[i \in 1..n |-> [fd |-> i - 1, flags |-> "Read", result |-> r[i]]] :
        r \in [1..n -> EarlierResults]}

TooManySockets == [kind |-> "TooManySockets", tag |-> "", code |-> 0, errno |-> 0]
OkCount(n) == [kind |-> "Ok", tag |-> "", code |-> n, errno |-> 0]

\* for (poll_entry, pollfd) in poll_list.iter_mut().zip(poll_fds.iter()):
\* zip ends with the shorter of the two.
zip_results(poll_list, poll_fds) ==
    [i \in 1..Len(poll_list) |->
        IF i <= Len(poll_fds)
        THEN [poll_list[i] EXCEPT !.result = poll_fds[i]]
        ELSE poll_list[i]]

\* raw::poll.  result: what nrf_poll returns; returned: the `returned` fields
\* of the MAX_SOCKETS_POLL records after the call; errno: LAST_ERROR.
poll(poll_list, result, returned, errno) ==
    IF Len(poll_list) > MAX_SOCKETS_POLL
    THEN [calls |-> <<>>, result |-> TooManySockets, list |-> poll_list]
    ELSE LET count == Len(poll_list)
             c == Call("nrf_poll", 0 - 1, "", 0, count, result)
         IN  IF result = 0 - 1
             THEN [calls |-> <<c>>, result |-> Nordic("poll", 0 - 1, errno),
                   list |-> poll_list]
             ELSE IF result = 0
             THEN [calls |-> <<c>>, result |-> OkCount(0), list |-> poll_list]
             ELSE [calls |-> <<c>>, result |-> OkCount(result),
                   list |-> zip_results(poll_list, returned)]

UtilFrame ==
    UNCHANGED <<heap, live, status, last, cs, primask, borrowed, at, ipc, net, boot,
                gnss>>

Poll ==
    /\ util.pc = "idle"
    /\ \E n \in 0..(MAX_SOCKETS_POLL + 1) :
       \E poll_list \in PollLists(n), result \in PollRets, errno \in Errnos,
          returned \in [1..MAX_SOCKETS_POLL -> Returned] :
          LET done == poll(poll_list, result, returned, errno)
          IN  util' = [UtilIdle EXCEPT !.pc = "done", !.fn = "poll",
                                       !.before = poll_list, !.list = done.list,
                                       !.calls = done.calls, !.backend = result,
                                       !.result = done.result]
    /\ UtilFrame

\* The CPU clock in cycles per millisecond (64 MHz).
CyclesPerMs == 64000
NRF_ETIMEDOUT == 116
Half == 256 * 256
\* i32 values: the extremes, zero, and the timeouts around u32::MAX / 64000.
Timeouts == {0 - 2147483647 - 1, 0 - 1, 0, 1, 33554, 67108, 67109, 2147483647}

\* (timeout_ms as u32) * 64_000 for timeout_ms >= 0, computed in pieces that
\* stay below 2^31: hi and lo are the halves of the product modulo 2^32,
\* carry is the part at and above 2^32.
times_64000(a) ==
    LET a1 == a \div Half
        a01 == (a % Half) \div 256
        a00 == a % 256
        p0 == a00 * CyclesPerMs
        p1 == a01 * CyclesPerMs
        p2 == a1 * CyclesPerMs
        lo_sum == (p0 % Half) + ((p1 % 256) * 256)
        hi_sum == (p0 \div Half) + (p1 \div 256) + p2 + (lo_sum \div Half)
    IN  [hi |-> hi_sum % Half, lo |-> lo_sum % Half, carry |-> hi_sum \div Half]

\* nrf_modem_os_timedwait.  overflow_checks: the build panics on arithmetic
\* overflow (debug) or wraps (release).
nrf_modem_os_timedwait(timeout_ms, overflow_checks) ==
    IF timeout_ms < 0
    THEN [ret |-> 0, delay |-> <<>>, carry |-> 0, panicked |-> FALSE]
    ELSE LET cycles == times_64000(timeout_ms)
         IN  IF cycles.carry # 0 /\ overflow_checks
             THEN [ret |-> 0, delay |-> <<>>, carry |-> cycles.carry,
                   panicked |-> TRUE]
             ELSE [ret |-> NRF_ETIMEDOUT, delay |-> <<cycles.hi, cycles.lo>>,
                   carry |-> cycles.carry, panicked |-> FALSE]

TimedWait ==
    /\ util.pc = "idle"
    /\ \E timeout_ms \in Timeouts, overflow_checks \in BOOLEAN :
          LET done == nrf_modem_os_timedwait(timeout_ms, overflow_checks)
          IN  util' = [UtilIdle EXCEPT !.pc = IF done.panicked THEN "panicked"
                                              ELSE "done",
                                       !.fn = "nrf_modem_os_timedwait",
                                       !.timeout_ms = timeout_ms,
                                       !.ret = done.ret, !.delay = done.delay,
                                       !.carry = done.carry,
                                       !.panicked = done.panicked]
    /\ UtilFrame

\* The caller goes on after the call returned.
UtilDone ==
    /\ util.pc = "done"
    /\ util' = UtilIdle
    /\ UtilFrame

UtilInit == NetInit

UtilNext ==
    \/ Poll
    \/ TimedWait
    \/ UtilDone

UtilSpec == UtilInit /\ [][UtilNext]_vars

-----------------------------------------------------------------------------
(* Claims about the allocators (specification Spec) *)

\* C1: allocate(s) followed immediately by free of the returned pointer
\* restores the free list to its state before the allocation, so that a second
\* allocate(s) returns the same address.
C1_RoundTripRestores ==
    (last.op = "free" /\ last.immediate) =>
        /\ status = "running"
        /\ heap[last.h].holes = last.alloc_before
        /\ LET again == allocate_first_fit(heap[last.h].holes, last.alloc_layout,
                                           usize_size)
           IN  again.ok /\ again.ptr + usize_size = last.result

\* C2: live blocks are pairwise disjoint, lie inside the region, and no hole
\* overlaps a live block.
C2_BlocksDisjoint ==
    \A h \in Heaps :
        heap[h].present =>
            /\ \A b1, b2 \in live[h] :
                   b1 # b2 => ~Overlap(b1.block, b1.block + b1.size,
                                       b2.block, b2.block + b2.size)
            /\ \A b \in live[h] : InRegion(heap[h], b.block, b.block + b.size)
            /\ ~Corrupted(heap[h], live[h])

\* C3: free releases exactly the block that allocate obtained: it starts at
\* the header pointer and has the size of the layout used at allocation time.
C3_FreeReleasesAllocatedBlock ==
    last.op = "free" =>
        /\ last.dealloc_addr = last.result - usize_size
        /\ last.dealloc_size = last.alloc_layout

\* C4: after a successful allocate(n) the word before the payload holds the
\* total allocated size n + header size, and the payload pointer is the header
\* pointer plus the header size.
C4_HeaderHoldsTotalSize ==
    (last.op = "alloc" /\ last.result # NULL) =>
        /\ last.header = last.num_bytes + usize_size
        /\ last.result = last.block + usize_size

\* No hole of the list can hold num_bytes plus the header (in unbounded
\* arithmetic: a request within usize_size of usize::MAX fits nowhere).
NoFit(holes, num_bytes) ==
    \/ num_bytes < 0
    \/ \A i \in 1 .. Len(holes) : holes[i].size < num_bytes + usize_size

\* C5: when no free block can hold the request plus the header, allocate
\* returns null, leaves the free list unchanged and does not abort.
C5_ExhaustionReturnsNull ==
    (last.op = "alloc" /\ NoFit(last.before, last.num_bytes)) =>
        /\ last.result = NULL
        /\ status = "running"
        /\ heap[last.h].present => heap[last.h].holes = last.before

\* C5 for requests whose sum with the header size does not wrap (a check of
\* the model: the ordinary out-of-memory path).
OrdinaryExhaustionReturnsNull ==
    (last.op = "alloc" /\ last.num_bytes >= 0) => C5_ExhaustionReturnsNull

\* C7: the allocators are independent: a call on one leaves the other's heap
\* unchanged, and every block handed out by an allocator lies in its own region.
C7_AllocatorsIndependent ==
    /\ last.op \in {"alloc", "free"} => last.frame
    /\ \A h \in Heaps : \A b \in live[h] :
           InRegion(heap[h], b.block, b.block + b.size)

-----------------------------------------------------------------------------
(* Claims about the critical sections (specification CSSpec) *)

\* C6: every call makes its whole heap access inside one interrupt-masked
\* critical section: while a call is between its first and last heap access
\* interrupts are masked and no other call is in progress, the RefCell of a
\* heap is never borrowed twice (and borrow_mut never panics), and a call made
\* from the interrupt handler can always take its next step.
C6_CriticalSection ==
    /\ \A c \in Contexts :
           cs[c].pc \in InHeapAccess =>
               /\ primask
               /\ \A d \in Contexts \ {c} : cs[d].pc \in {"idle", "called"}
    /\ \A h \in Heaps :
           /\ borrowed[h] <= 1
           /\ borrowed[h] = Cardinality({c \in Contexts :
                                           cs[c].h = h /\ cs[c].pc \in InBorrow})
    /\ \A c \in Contexts :
           (cs[c].pc = "entered" /\ status = "running") => borrowed[cs[c].h] = 0
    /\ (cs["isr"].pc # "idle" /\ status = "running") => ENABLED IsrStep

\* Witness of C6: the handler is inside its critical section while the thread
\* has a call in progress that has not yet entered its own.
C6_Witness ==
    /\ cs["isr"].pc = "heapdone"
    /\ cs["thread"].pc = "called"
    /\ primask

-----------------------------------------------------------------------------
(* Claims about the AT response channel (specification ATSpec) *)

Whitespace == {" ", CR, LF, TAB}

\* The text without the whitespace at its two ends.
Stripped(text) ==
    LET inked == {i \in 1 .. Len(text) : text[i] \notin Whitespace}
    IN  IF inked = {} THEN <<>>
        ELSE SubSeq(text,
                    CHOOSE i \in inked : \A j \in inked : i <= j,
                    CHOOSE i \in inked : \A j \in inked : j <= i)

HasPrefix(text, prefix) ==
    \E k \in 0 .. Len(text) :
        k = Len(prefix) /\ \A i \in 1 .. k : text[i] = prefix[i]

RestAfter(text, prefix) == SubSeq(text, Len(prefix) + 1, Len(text))

DigitOf(c) == CHOOSE d \in 0 .. 9 : Digits[d + 1] = c
IsNumeral(text) ==
    /\ text # <<>>
    /\ \A i \in 1 .. Len(text) : \E d \in 0 .. 9 : Digits[d + 1] = text[i]

RECURSIVE Pow10(_)
Pow10(n) == IF n = 0 THEN 1 ELSE 10 * Pow10(n - 1)

\* The numeral without its leading zeros (at least one digit is kept).
RECURSIVE Significant(_)
Significant(num) ==
    IF Len(num) > 1 /\ Head(num) = "0" THEN Significant(Tail(num)) ELSE num

\* a <= b for two numerals of the same length.
NumeralLeq(a, b) ==
    \/ a = b
    \/ \E i \in 1 .. Len(a) :
          /\ \A j \in 1 .. i - 1 : a[j] = b[j]
          /\ DigitOf(a[i]) < DigitOf(b[i])

RECURSIVE NumeralSum(_)
NumeralSum(num) ==
    IF num = <<>> THEN 0
    ELSE DigitOf(Head(num)) * Pow10(Len(num) - 1) + NumeralSum(Tail(num))

I32Max == <<"2", "1", "4", "7", "4", "8", "3", "6", "4", "7">>
I32MinMagnitude == <<"2", "1", "4", "7", "4", "8", "3", "6", "4", "8">>

\* The 32-bit integer a text denotes (an optional sign, then decimal digits),
\* or -1 when the text denotes none.
IntegerOrMinusOne(text) ==
    LET signed == text # <<>> /\ Head(text) \in {"+", "-"}
        negative == signed /\ Head(text) = "-"
        num == IF signed THEN Tail(text) ELSE text
    IN  IF ~IsNumeral(num) THEN 0 - 1
        ELSE LET sig == Significant(num)
             IN  IF Len(sig) > 10 THEN 0 - 1
                 ELSE IF Len(sig) = 10 /\ negative /\ sig = I32MinMagnitude
                      THEN (0 - i32_MAX) - 1
                 ELSE IF Len(sig) = 10 /\ ~NumeralLeq(sig, I32Max) THEN 0 - 1
                 ELSE IF negative THEN 0 - NumeralSum(sig)
                 ELSE NumeralSum(sig)

IsTerminalLine(line) ==
    \/ line = OK
    \/ line = ERROR
    \/ HasPrefix(line, CME_ERROR)
    \/ HasPrefix(line, CMS_ERROR)

\* The outcome the trimmed line must have.
Classified(line, outcome) ==
    /\ line = OK => outcome = [kind |-> "Ok", code |-> 0]
    /\ line = ERROR => outcome = [kind |-> "AtError::Error", code |-> 0]
    /\ HasPrefix(line, CME_ERROR) =>
           outcome = [kind |-> "AtError::CmeError",
                      code |-> IntegerOrMinusOne(Stripped(RestAfter(line, CME_ERROR)))]
    /\ HasPrefix(line, CMS_ERROR) =>
           outcome = [kind |-> "AtError::CmsError",
                      code |-> IntegerOrMinusOne(Stripped(RestAfter(line, CMS_ERROR)))]
    /\ ~IsTerminalLine(line) => outcome.kind = "data"

\* The lines of the last buffer, trimmed, and what the last pass did with
\* them: the calls of the sink it made, and the lines it went through.
LastLines == [j \in 1 .. Len(at.last_lines) |-> Stripped(at.last_lines[j])]
LastSunk == SubSeq(at.sink, at.last_sunk + 1, Len(at.sink))
EndedByLine == at.result.kind \notin {"none", "Nordic"}
Processed == Len(LastSunk) + (IF EndedByLine THEN 1 ELSE 0)
OutcomeOf(j) ==
    IF j <= Len(LastSunk) THEN [kind |-> "data", code |-> 0] ELSE at.result

\* C8: a terminal line that arrives split across reads (the first read ends
\* inside the line, a later read brings the rest and the "\n") is still
\* classified as terminal: poll_response returns its outcome, and the
\* fragments are not delivered to the sink.
C8_SplitTerminalLine ==
    LET breaks == {k \in 1 .. Len(at.payload) : at.payload[k] = LF}
        first == CHOOSE k \in breaks : \A j \in breaks : k <= j
        line == Stripped(at.carry \o SubSeq(at.payload, 1, first - 1))
    IN  ( /\ at.nreads >= 2
          /\ ~at.lf_before
          /\ at.carry # <<>>
          /\ \A i \in 1 .. Len(at.carry) : at.carry[i] \notin Whitespace
          /\ breaks # {}
          /\ IsTerminalLine(line) )
        => /\ at.pc = "done"
           /\ Classified(line, at.result)
           /\ at.sink = <<>>

\* C9: each trimmed line is classified by its text: "OK" ends the exchange
\* with success, "ERROR" with the generic AT error, a line starting with
\* "+CME ERROR:" / "+CMS ERROR:" with the extended error carrying the integer
\* parsed from the trimmed remainder (-1 when it does not parse), and every
\* other line is an indication handed to the sink, trimmed.
C9_LineClassification ==
    /\ Processed <= Len(LastLines)
    /\ \A j \in 1 .. Processed :
           /\ Classified(LastLines[j], OutcomeOf(j))
           /\ OutcomeOf(j).kind = "data" => LastSunk[j] = LastLines[j]

\* Witness of C9: an indication was handed to the sink and a later line
\* "+CME ERROR: x" ended the exchange with the extended error -1.
C9_Witness ==
    /\ at.pc = "done"
    /\ at.result = [kind |-> "AtError::CmeError", code |-> 0 - 1]
    /\ at.sink = << <<"+", "C", ":", "1">> >>
    /\ Processed >= 1
    /\ LastLines[Processed] = CME_ERROR \o <<" ", "x">>

RECURSIVE BreakLines(_)
BreakLines(text) ==
    LET breaks == {i \in 1 .. Len(text) : text[i] \in {CR, LF}}
        i == CHOOSE k \in breaks : \A j \in breaks : k <= j
        skip == IF text[i] = CR /\ i < Len(text) /\ text[i + 1] = LF THEN 2 ELSE 1
    IN  IF text = <<>> THEN <<>>
        ELSE IF breaks = {} THEN <<text>>
        ELSE <<SubSeq(text, 1, i - 1)>> \o BreakLines(SubSeq(text, i + skip, Len(text)))

\* C11: a carriage return, a carriage-return/newline pair and a newline each
\* end a line, and a terminal line may end the buffer without a terminator:
\* a (NUL-terminated) buffer holding an indication followed by "OK", in any
\* of these framings, delivers the indication to the sink and returns success.
C11_LineFramings ==
    LET ls == BreakLines(at.payload)
    IN  ( /\ at.nreads = 1
          /\ at.framing = <<NUL>>
          /\ Len(ls) = 2
          /\ Stripped(ls[1]) # <<>>
          /\ ~IsTerminalLine(Stripped(ls[1]))
          /\ Stripped(ls[2]) = OK )
        => /\ at.pc = "done"
           /\ at.result = [kind |-> "Ok", code |-> 0]
           /\ at.sink = <<Stripped(ls[1])>>

\* The part of C11 that holds: the same buffers with the indication ended by
\* a newline or by a carriage-return/newline pair.
NewlineFramings ==
    LET ls == BreakLines(at.payload)
    IN  ( /\ at.nreads = 1
          /\ at.framing = <<NUL>>
          /\ Len(ls) = 2
          /\ Len(lines(at.payload)) = 2
          /\ Stripped(ls[1]) # <<>>
          /\ ~IsTerminalLine(Stripped(ls[1]))
          /\ Stripped(ls[2]) = OK )
        => /\ at.pc = "done"
           /\ at.result = [kind |-> "Ok", code |-> 0]
           /\ at.sink = <<Stripped(ls[1])>>

\* The lines sent, trimmed, up to and without the first terminal line.
RECURSIVE BeforeTerminal(_)
BeforeTerminal(ls) ==
    IF ls = <<>> \/ IsTerminalLine(Stripped(Head(ls))) THEN <<>>
    ELSE <<Stripped(Head(ls))>> \o BeforeTerminal(Tail(ls))

\* All that the modem has sent in this invocation, when no newline came
\* before the last read (carry is then the whole of the earlier reads).
SentSoFar == at.carry \o at.payload

\* C12: the strings passed to the sink during one invocation are, in order
\* and each once, the non-terminal lines the modem sent before the first
\* terminal line, within one buffer and across reads; no indication is taken
\* for a terminal line.  (Stated for the moments when the modem has sent
\* whole lines only, the last buffer a NUL-terminated string.)
C12_SinkSequence ==
    ( /\ at.nreads >= 1
      /\ at.framing = <<NUL>>
      /\ ~at.lf_before
      /\ SentSoFar # <<>>
      /\ SentSoFar[Len(SentSoFar)] \in {CR, LF} )
    => /\ at.sink = BeforeTerminal(BreakLines(SentSoFar))
       /\ EndedByLine =>
              \E j \in 1 .. Len(BreakLines(SentSoFar)) :
                  IsTerminalLine(Stripped(BreakLines(SentSoFar)[j]))

\* The modem has delivered, as a NUL-terminated buffer that starts a new
\* line, a buffer one of whose lines is a terminal line.
TerminalLineDelivered ==
    /\ at.nreads >= 1
    /\ at.framing = <<NUL>>
    /\ at.carry = <<>>
    /\ \E j \in 1 .. Len(BreakLines(at.payload)) :
           IsTerminalLine(Stripped(BreakLines(at.payload)[j]))

\* C13: a read that reports would-block neither returns nor calls the sink,
\* and the loop reads again; poll_response returns only on a terminal line or
\* on a read error, which it hands on without retry; and once the modem has
\* delivered a buffer containing a terminal line, poll_response returns.
\* (A panic of poll_response is not counted against the last part here.)
C13_WouldBlockRepolls ==
    /\ [][RecvWouldBlock =>
              (at'.pc = "polling" /\ at'.sink = at.sink /\ at'.result = NoResult)]_vars
    /\ [][RecvError => (at'.pc = "done" /\ at'.result.kind = "Nordic")]_vars
    /\ [](at.pc = "done" =>
              \/ at.result.kind = "Nordic"
              \/ \E j \in 1 .. Len(LastLines) : IsTerminalLine(LastLines[j]))
    /\ (TerminalLineDelivered ~> at.pc \in {"done", "panicked"})

\* The parts of C13 about would-block results and read errors, which hold.
WouldBlockReadsAgain ==
    /\ [][RecvWouldBlock =>
              (at'.pc = "polling" /\ at'.sink = at.sink /\ at'.result = NoResult)]_vars
    /\ [][RecvError => (at'.pc = "done" /\ at'.result.kind = "Nordic")]_vars
    /\ [](at.pc = "done" =>
              \/ at.result.kind = "Nordic"
              \/ \E j \in 1 .. Len(LastLines) : IsTerminalLine(LastLines[j]))

-----------------------------------------------------------------------------
(* Claims about the IPC driver (specification IPCSpec) *)

\* The indices of the 1 bits of a word, lowest first.
RECURSIVE BitsFrom(_, _)
BitsFrom(word, i) ==
    IF i > IpcChannels - 1 THEN <<>>
    ELSE (IF (word \div Pow2(i)) % 2 = 1 THEN <<i>> ELSE <<>>) \o BitsFrom(word, i + 1)
AscendingBits(word) == BitsFrom(word, 0)

IsPrefix(a, b) == Len(a) <= Len(b) /\ SubSeq(b, 1, Len(a)) = a

\* C14: in each run of the ISR, 0 is written to the event register of every
\* index whose bit is set in the mask read, and to no other, lowest index
\* first, one turn of the loop per set bit; all these writes are made before
\* the handler is called, so that no event of the mask is still to be
\* cleared when the handler runs.
C14_EventsClearedBeforeHandler ==
    /\ ipc.isr.pc \in {"clearing", "loaded", "undefined"} =>
           /\ IsPrefix(ipc.isr.cleared, AscendingBits(ipc.isr.events_map))
           /\ ipc.calls = <<>>
    /\ ipc.isr.pc \in {"loaded", "undefined"} =>
           ipc.isr.cleared = AscendingBits(ipc.isr.events_map)
    /\ \A k \in 1 .. Len(ipc.calls) :
           /\ ipc.calls[k].cleared = AscendingBits(ipc.isr.events_map)
           /\ ipc.calls[k].uncleared = 0

\* Witness of C14: the handler was called after the loop had cleared two
\* events.
C14_Witness ==
    /\ Len(ipc.calls) = 1
    /\ Len(ipc.calls[1].cleared) = 2
    /\ ipc.isr.pc = "idle"

\* C15: each run of the ISR calls the registered handler exactly once, with
\* the whole mask as read at entry (not the mask as reduced by the loop) and
\* with the stored context pointer, for every mask, 0 included.
C15_HandlerCalledOnce ==
    /\ ipc.isr.pc = "loaded" =>
           /\ ipc.isr.handler_addr = ipc.IPC_HANDLER
           /\ ipc.isr.context = ipc.IPC_CONTEXT
    /\ (ipc.runs = 1 /\ ipc.isr.pc = "idle") =>
           /\ Len(ipc.calls) = 1
           /\ ipc.calls[1].handler = ipc.isr.handler_addr
           /\ ipc.calls[1].event_mask = ipc.isr.events_map
           /\ ipc.calls[1].ptr = ipc.isr.context

\* Witness of C15: a run of the ISR that read a mask with two bits set has
\* ended, the handler called with that mask.
C15_Witness ==
    /\ ipc.runs = 1
    /\ ipc.isr.pc = "idle"
    /\ Len(AscendingBits(ipc.isr.events_map)) = 2
    /\ Len(ipc.calls) = 1
    /\ ipc.calls[1].event_mask = ipc.isr.events_map

-----------------------------------------------------------------------------
(* Claims about the sockets (specification NetSpec) *)

\* The descriptors of the socket values alive.
Held == {net.values[s].fd : s \in {t \in Slots : net.values[t].kind # "none"}}
\* The positions in the calls of the last operation of the calls of fn.
CallsOf(fn) == {k \in 1 .. Len(net.op.calls) : net.op.calls[k].fn = fn}
LastCall == net.op.calls[Len(net.op.calls)]
\* The last operation opened a descriptor.
Opened == net.op.calls # <<>> /\ net.op.calls[1].fn = "nrf_socket" /\ net.op.calls[1].ret >= 0
SecureKinds == {"TlsSocket", "DtlsSocket"}

\* C17: a descriptor opened by Socket::new is closed exactly once, when the
\* value that owns it is destroyed: on the drop of a value, on the error
\* return of a TLS or DTLS constructor after the open, and at the end of
\* send_at_command, error or not; no descriptor is closed twice and no call
\* names a descriptor after its close.
C17_ClosedExactlyOnce ==
    /\ ~net.faults
    /\ net.open = Held
    /\ \A fd \in Fds :
           Cardinality({k \in CallsOf("nrf_close") : net.op.calls[k].fd = fd}) <= 1
    /\ net.op.name = "drop" =>
           /\ Cardinality(CallsOf("nrf_close")) = 1
           /\ LastCall.fn = "nrf_close"
           /\ net.values[net.op.slot] = NoValue
    /\ (Opened /\ (net.op.name = "send_at_command" \/ net.op.result.kind # "Ok")) =>
           /\ Cardinality(CallsOf("nrf_close")) = 1
           /\ LastCall.fn = "nrf_close"
           /\ LastCall.fd = net.op.calls[1].ret
    /\ (net.op.name = "new" /\ net.op.result.kind = "Ok") =>
           /\ CallsOf("nrf_close") = {}
           /\ net.values[net.op.slot].fd = net.op.calls[1].ret
    /\ net.op.name \in {"connect", "write"} => CallsOf("nrf_close") = {}

\* Witness of C17: a TLS constructor has returned the error of an option
\* after it had opened a descriptor, and that descriptor is closed.
C17_Witness ==
    /\ net.op.name = "new"
    /\ net.op.kind = "TlsSocket"
    /\ Opened
    /\ net.op.result.kind = "Nordic"
    /\ net.op.result.tag = "set_option"
    /\ LastCall.fn = "nrf_close"
    /\ net.op.calls[1].ret \notin net.open

\* C18 as the spec states it: when TlsSocket::new or DtlsSocket::new returns
\* a socket, peer verification, session caching and the hostname (and the
\* tag list, if one was given) have been applied to it.
C18_OptionsAppliedAtReturn ==
    (net.op.name = "new" /\ net.op.kind \in SecureKinds /\ net.op.result.kind = "Ok") =>
        {"TlsPeerVerify", "TlsSessionCache", "TlsHostName"}
            \subseteq net.values[net.op.slot].options

\* C18, amended: a socket TlsSocket::new or DtlsSocket::new returns has peer
\* verification and session caching applied (and the tag list, if one was
\* given); if one of them cannot be set no socket is returned.  The hostname
\* is applied by connect, before the name is resolved and before any connect
\* attempt; if it cannot be set connect returns the error and makes no
\* attempt.
C18_OptionsBeforeConnect ==
    /\ \A s \in Slots :
           net.values[s].kind \in SecureKinds =>
               {"TlsPeerVerify", "TlsSessionCache"} \subseteq net.values[s].options
    /\ (net.op.name = "new" /\ net.op.kind \in SecureKinds) =>
           IF net.op.result.kind = "Ok"
           THEN /\ \A k \in CallsOf("nrf_setsockopt") : net.op.calls[k].ret >= 0
                /\ net.values[net.op.slot].options = applied(net.op.calls)
                /\ "TlsHostName" \notin applied(net.op.calls)
           ELSE net.values[net.op.slot] = NoValue
    /\ (net.op.name = "connect" /\ net.op.kind \in SecureKinds) =>
           /\ net.op.calls[1].fn = "nrf_setsockopt"
           /\ net.op.calls[1].opt = "TlsHostName"
           /\ net.op.calls[1].ret < 0 =>
                  /\ Len(net.op.calls) = 1
                  /\ net.op.result = Nordic("set_option", net.op.calls[1].ret,
                                            net.op.result.errno)
           /\ CallsOf("nrf_connect") # {} =>
                  {"TlsPeerVerify", "TlsSessionCache", "TlsHostName"}
                      \subseteq net.values[net.op.slot].options

\* Witness of C18: a connect attempt was made on a TlsSocket, which has the
\* four options.
C18_Witness ==
    /\ net.op.name = "connect"
    /\ net.op.kind = "TlsSocket"
    /\ CallsOf("nrf_connect") # {}
    /\ net.values[net.op.slot].options
           = {"TlsPeerVerify", "TlsSessionCache", "TlsTagList", "TlsHostName"}

\* The two bytes of a 16-bit field in the memory of the (little-endian)
\* device, and the two bytes of a port in network order.
BytesInMemory(field) == <<field % 256, field \div 256>>
NetworkOrder(port) == <<port \div 256, port % 256>>
\* The connect attempts of the last operation, in the order made.
RECURSIVE AttemptsFrom(_)
AttemptsFrom(k) ==
    IF k > Len(net.op.calls) THEN <<>>
    ELSE (IF net.op.calls[k].fn = "nrf_connect" THEN <<net.op.calls[k]>> ELSE <<>>)
         \o AttemptsFrom(k + 1)
Attempts == AttemptsFrom(1)

\* C19: connect tries the addresses of the list in list order, each with the
\* caller's port in network byte order, stops at the first attempt that
\* succeeds and then returns Ok; when every address fails it returns an error
\* with the return code of the last attempt.
C19_ConnectInListOrder ==
    net.op.name = "connect" =>
        /\ Len(Attempts) <= net.op.naddrs
        /\ \A k \in 1 .. Len(Attempts) :
               /\ Attempts[k].addr = k
               /\ Attempts[k].fd = net.values[net.op.slot].fd
               /\ BytesInMemory(Attempts[k].port) = NetworkOrder(net.op.port)
               /\ k < Len(Attempts) => Attempts[k].ret # 0
        /\ Attempts # <<>> =>
               IF Attempts[Len(Attempts)].ret = 0
               THEN net.op.result = Ok
               ELSE /\ Len(Attempts) = net.op.naddrs
                    /\ net.op.result.kind = "Nordic"
                    /\ net.op.result.code = Attempts[Len(Attempts)].ret

\* Witness of C19: the first address failed, the second succeeded, connect
\* returned Ok; the port has two different bytes.
C19_Witness ==
    /\ net.op.name = "connect"
    /\ net.op.port = 443
    /\ Len(Attempts) = 2
    /\ Attempts[1].ret # 0
    /\ Attempts[2].ret = 0
    /\ net.op.result = Ok

\* The errors connect of this kind returns when the list was walked and
\* every attempt failed.
AllFailed == {l \in AddrLists(MaxAddrs) : l # <<>> /\ \A i \in 1 .. Len(l) : l[i] # 0}
ConnectFailures(kind) ==
    {(IF kind = "TcpSocket" THEN tcp_connect(0, 9, 0, l, 80, e)
      ELSE tls_connect(IF kind = "TlsSocket" THEN "tls" ELSE "dtls",
                       0, 0, 9, 0, l, 80, e)).result :
         l \in AllFailed, e \in Errnos}
\* connect called the resolver and was given a null list.
NullList == net.op.name = "connect" /\ CallsOf("nrf_getaddrinfo") # {} /\ net.op.naddrs = 0

\* C20: when the resolver gives a null list, connect makes no connect
\* attempt and returns an error, one that differs from the errors it returns
\* when every connect attempt failed.
C20_ResolutionFailureDistinct ==
    NullList =>
        /\ CallsOf("nrf_connect") = {}
        /\ net.op.result.kind \notin {"Ok", "undefined"}
        /\ net.op.result \notin ConnectFailures(net.op.kind)

\* The part of C20 that holds: no connect attempt follows a null list, and
\* TlsSocket::connect and DtlsSocket::connect report a null list with a
\* non-zero resolver code under a name of its own.
NullListNoAttempt ==
    NullList =>
        /\ CallsOf("nrf_connect") = {}
        /\ (net.op.kind \in SecureKinds /\ net.op.result.kind = "Nordic") =>
               /\ net.op.result.tag \in {"tls_dns", "dtls_dns"}
               /\ net.op.result \notin ConnectFailures(net.op.kind)

\* The value of the n-th load of LAST_ERROR in the last operation.
Loads == CallsOf("get_last_error")
FirstLoad == net.op.calls[CHOOSE k \in Loads : \A j \in Loads : k <= j].ret

\* C21: Socket::recv returns None only when the read failed and the last
\* error is the try-again code; every other failed read returns an error
\* with "recv", the return code and the last error; a read of r >= 0 bytes
\* returns Some(r), so a read of 0 bytes is Some(0), never None.
C21_RecvOutcome ==
    net.op.name = "recv" =>
        LET r == net.op.calls[1].ret
        IN  /\ net.op.calls[1].fn = "nrf_recv"
            /\ net.op.result.kind = "None" =>
                   r < 0 /\ Loads # {} /\ FirstLoad = NRF_EAGAIN
            /\ (r = 0 - 1 /\ FirstLoad = NRF_EAGAIN) => net.op.result.kind = "None"
            /\ (r < 0 /\ net.op.result.kind # "None") =>
                   /\ LastCall.fn = "get_last_error"
                   /\ net.op.result = [kind |-> "Nordic", tag |-> "recv", code |-> r,
                                       errno |-> LastCall.ret]
            /\ r >= 0 =>
                   net.op.result = [kind |-> "Some", tag |-> "", code |-> r, errno |-> 0]

\* Witness of C21: a read of 0 bytes was returned as Some(0).
C21_Witness ==
    /\ net.op.name = "recv"
    /\ net.op.calls[1].ret = 0
    /\ net.op.result.kind = "Some"
    /\ net.op.result.code = 0

-----------------------------------------------------------------------------
(* Claims about provision_certificates (specification ProvisionSpec) *)

\* The three credential types, and the name of the write of each.
CredentialTypes == {"CA_CHAIN", "PUBLIC_CERT", "PRIVATE_CERT"}
Rank(type) == CASE type = "CA_CHAIN" -> 1 [] type = "PUBLIC_CERT" -> 2 [] OTHER -> 3
SlotName(type) ==
    CASE type = "CA_CHAIN" -> "ca_chain write"
      [] type = "PUBLIC_CERT" -> "public_cert write"
      [] OTHER -> "private_cert write"
Deletes == CallsOf("nrf_inbuilt_key_delete")
Writes == CallsOf("nrf_inbuilt_key_write")
\* The types whose blob was supplied and whose rank is at most n.
SuppliedUpTo(n) == {t \in CredentialTypes : net.op.supplied[Rank(t)] /\ Rank(t) <= n}

\* C30: provision_certificates deletes the three credential types under the
\* tag before any write and ignores what the deletes return; it then writes
\* the supplied blobs only, in the order CA chain, client certificate,
\* private key; the first write that fails returns an error that names that
\* slot, and no write follows it.
C30_ProvisionOrder ==
    net.op.name = "provision_certificates" =>
        /\ Deletes = 1 .. 3
        /\ {net.op.calls[k].opt : k \in Deletes} = CredentialTypes
        /\ Writes = 4 .. Len(net.op.calls)
        /\ \A k \in 1 .. Len(net.op.calls) : net.op.calls[k].addr = net.op.port
        /\ \A k, l \in Writes :
               k < l => /\ Rank(net.op.calls[k].opt) < Rank(net.op.calls[l].opt)
                        /\ net.op.calls[k].ret = 0
        /\ IF Writes # {} /\ LastCall.ret # 0
           THEN /\ net.op.result.kind = "Nordic"
                /\ net.op.result.tag = SlotName(LastCall.opt)
                /\ net.op.result.code = LastCall.ret
                /\ {net.op.calls[k].opt : k \in Writes} = SuppliedUpTo(Rank(LastCall.opt))
           ELSE /\ net.op.result.kind = "Ok"
                /\ {net.op.calls[k].opt : k \in Writes} = SuppliedUpTo(3)

\* Witness of C30: two deletes failed, the CA chain was written, the write
\* of the client certificate failed, and the private key, though supplied,
\* was not written.
C30_Witness ==
    /\ net.op.name = "provision_certificates"
    /\ net.op.supplied = <<TRUE, TRUE, TRUE>>
    /\ net.op.calls[1].ret < 0
    /\ net.op.calls[3].ret < 0
    /\ Len(net.op.calls) = 5
    /\ net.op.calls[5].opt = "PUBLIC_CERT"
    /\ net.op.result.tag = "public_cert write"


-----------------------------------------------------------------------------
(* Claims about start-up (specification BootSpec) *)

\* C28: init() installs both heaps before it calls nrf_modem_init, and the
\* callbacks use those two heaps: while the library runs both heaps are
\* there, and every allocate or free it has issued was served by a heap that
\* is present and lies over the region init() gave it.
RegionOf(h) == IF h = "GENERIC_ALLOCATOR" THEN <<GenBase, GenHeapSize>>
               ELSE <<TxBase, TxHeapSize>>
Installed(h) ==
    /\ heap[h].present
    /\ heap[h].bottom >= RegionOf(h)[1]
    /\ heap[h].top <= RegionOf(h)[1] + RegionOf(h)[2]
    /\ heap[h].bottom < heap[h].top
C29_InstalledOnce ==
    /\ \A h \in Heaps : boot.installs[h] <= 1
    /\ ~boot.discarded

\* A second init() replaced the general heap while the library held a block
\* of it.
HeapDiscarded ==
    /\ boot.inits = 2
    /\ boot.discarded
    /\ live["GENERIC_ALLOCATOR"] # {}
    /\ status = "corrupt"

-----------------------------------------------------------------------------
(* Claims about panics (specification ATSpec) *)

\* C27: no operation other than nrf_modem_irrecoverable_error_handler reaches
\* a panic; here: poll_response returns a value for every length that the
\* read returns, the length 0 included.
C27_PollResponseReturns == at.pc # "panicked"

-----------------------------------------------------------------------------
(* Claims about the GNSS frame decoder (specification GnssSpec) *)

Decoded == gnss.pc # "idle"

\* C22: for every pair of a negative return code of the read and a value of
\* the last error, Socket::recv and process_fix agree on whether the read is
\* "no data" (None) or an error.
C22_WouldBlockAgrees ==
    (Decoded /\ gnss.count < 0) =>
        ((gnss.out.result = None)
            <=> (recv(0, gnss.count, gnss.errno, gnss.errno).result = None))

\* C23: a count of 0 gives no frame; a negative count with the last error
\* equal to the try-again code gives no frame; a negative count with any other
\* last error gives the error ("get_fix", count, last error); in none of
\* these cases is the frame buffer read.
C23_CountOutcome ==
    (Decoded /\ gnss.count <= 0) =>
        /\ gnss.count = 0 => gnss.out.result.kind = "None"
        /\ (gnss.count < 0 /\ gnss.errno = NRF_EAGAIN) => gnss.out.result.kind = "None"
        /\ (gnss.count < 0 /\ gnss.errno # NRF_EAGAIN) =>
              /\ gnss.out.result.kind = "Nordic"
              /\ gnss.out.result.tag = "get_fix"
              /\ gnss.out.result.code = gnss.count
              /\ gnss.out.result.errno = gnss.errno
        /\ ~gnss.out.read
        /\ gnss.out.member = "none"
        /\ gnss.out.data = NoData

\* C23 witness: a read that returned a negative count, once with the
\* try-again code (no frame) - here the count is not -1.
C23_Witness ==
    /\ Decoded
    /\ gnss.count < 0 - 1
    /\ gnss.errno = NRF_EAGAIN
    /\ gnss.out.result.kind = "None"

\* C24: for a positive count the outcome is decided by the discriminant
\* alone: position gives a Position record, text a Nmea record or the decode
\* error, auxiliary data an Agps record, every other value the decode error
\* BadDataFormat; only the member of the union that the discriminant names is
\* read, and no value gives an undefined outcome.
Known == {NRF_GNSS_PVT_DATA_ID, NRF_GNSS_NMEA_DATA_ID, NRF_GNSS_AGPS_DATA_ID}
C24_DispatchOnDiscriminant ==
    (Decoded /\ gnss.count > 0) =>
        LET id == gnss.frame.data_id
            out == gnss.out
        IN  /\ out.read
            /\ id = NRF_GNSS_PVT_DATA_ID =>
                  /\ out.result.kind = "Some"
                  /\ out.data.variant = "Position"
                  /\ out.member = "pvt"
            /\ id = NRF_GNSS_NMEA_DATA_ID =>
                  /\ \/ out.result.kind = "Some" /\ out.data.variant = "Nmea"
                     \/ out.result.kind = "BadDataFormat" /\ out.data = NoData
                  /\ out.member = "nmea"
            /\ id = NRF_GNSS_AGPS_DATA_ID =>
                  /\ out.result.kind = "Some"
                  /\ out.data.variant = "Agps"
                  /\ out.member = "agps"
            /\ id \notin Known =>
                  /\ out.result.kind = "BadDataFormat"
                  /\ out.data = NoData
                  /\ out.member = "none"
            /\ out.result.kind \in {"Some", "BadDataFormat"}

\* C24 witness: a frame with a discriminant that names no variant was decoded.
C24_Witness ==
    /\ Decoded
    /\ gnss.count > 0
    /\ gnss.frame.data_id \notin Known
    /\ gnss.out.result.kind = "BadDataFormat"

\* The terminators of a text frame, the positions of the field that hold one,
\* and the index (from 0) of the first of them, 0 when there is none.
TextEnds == {0, 13, 10}
TerminatorsAt(text) == {i \in 1..Len(text) : text[i] \in TextEnds}
DecodedLength(text) ==
    IF TerminatorsAt(text) = {} THEN 0
    ELSE (CHOOSE i \in TerminatorsAt(text) : \A j \in TerminatorsAt(text) : i <= j) - 1

\* Well-formed UTF-8 by definition: the bytes are the concatenation of the
\* encodings of Unicode scalar values.
IsScalar(cp) == cp >= 0 /\ cp <= 1114111 /\ ~(cp >= 55296 /\ cp <= 57343)
Encode(cp) ==
    IF cp < 128 THEN <<cp>>
    ELSE IF cp < 2048 THEN <<192 + (cp \div 64), 128 + (cp % 64)>>
    ELSE IF cp < 65536
    THEN <<224 + (cp \div 4096), 128 + ((cp \div 64) % 64), 128 + (cp % 64)>>
    ELSE <<240 + (cp \div 262144), 128 + ((cp \div 4096) % 64),
           128 + ((cp \div 64) % 64), 128 + (cp % 64)>>
\* The one scalar value a chunk of 1 to 4 bytes could encode.
Candidate(c) ==
    IF Len(c) = 1 THEN c[1]
    ELSE IF Len(c) = 2 THEN (c[1] - 192) * 64 + (c[2] - 128)
    ELSE IF Len(c) = 3 THEN (c[1] - 224) * 4096 + (c[2] - 128) * 64 + (c[3] - 128)
    ELSE (c[1] - 240) * 262144 + (c[2] - 128) * 4096 + (c[3] - 128) * 64 + (c[4] - 128)
EncodesScalar(c) == IsScalar(Candidate(c)) /\ Encode(Candidate(c)) = c
RECURSIVE WellFormed(_)
WellFormed(v) ==
    \/ v = <<>>
    \/ \E k \in 1..4 :
          /\ k <= Len(v)
          /\ EncodesScalar(SubSeq(v, 1, k))
          /\ WellFormed(SubSeq(v, k + 1, Len(v)))

\* C25: for a text frame the decoded length is the index of the first NUL,
\* carriage-return or newline byte of the text field (the terminator is not
\* counted), or 0 when the field holds none; when the bytes before that index
\* are not well-formed UTF-8 the result is BadDataFormat, and otherwise the
\* record holds the whole field and that length.
C25_TextLength ==
    (Decoded /\ gnss.count > 0 /\ gnss.frame.data_id = NRF_GNSS_NMEA_DATA_ID) =>
        LET text == gnss.frame.bytes
            n == DecodedLength(text)
        IN  IF WellFormed(SubSeq(text, 1, n))
            THEN /\ gnss.out.result.kind = "Some"
                 /\ gnss.out.data.variant = "Nmea"
                 /\ gnss.out.data.length = n
                 /\ gnss.out.data.buffer = text
            ELSE /\ gnss.out.result.kind = "BadDataFormat"
                 /\ gnss.out.data = NoData

\* C25 witness: a text frame without any terminator was decoded to a record
\* of length 0.
C25_Witness ==
    /\ Decoded
    /\ gnss.count > 0
    /\ gnss.frame.data_id = NRF_GNSS_NMEA_DATA_ID
    /\ TerminatorsAt(gnss.frame.bytes) = {}
    /\ gnss.out.data.variant = "Nmea"
    /\ gnss.out.data.length = 0

\* A text frame whose bytes before the terminator are not UTF-8 is refused.
TextRefused ==
    /\ Decoded
    /\ gnss.count > 0
    /\ gnss.frame.data_id = NRF_GNSS_NMEA_DATA_ID
    /\ DecodedLength(gnss.frame.bytes) > 0
    /\ gnss.out.result.kind = "BadDataFormat"

\* A text frame with a two-byte character before the terminator is accepted.
TextAccepted ==
    /\ Decoded
    /\ gnss.frame.data_id = NRF_GNSS_NMEA_DATA_ID
    /\ gnss.out.data.variant = "Nmea"
    /\ gnss.out.data.length = 2
    /\ gnss.frame.bytes[1] > 127

\* C26: is_valid is true exactly when the value is a Position record whose
\* flags have the fix-valid bit set: false for every Nmea and Agps record and
\* for a Position record with the bit clear, whatever the other bits are.
FixValidBitSet(flags) == (flags \div NRF_GNSS_PVT_FLAG_FIX_VALID_BIT) % 2 = 1
C26_IsValid ==
    gnss.pc = "checked" =>
        (gnss.valid <=> (/\ gnss.out.data.variant = "Position"
                         /\ FixValidBitSet(gnss.out.data.flags)))

\* C26 witness: is_valid was asked of a Position record with other flag bits
\* set and the fix-valid bit clear, and answered false.
C26_Witness ==
    /\ gnss.pc = "checked"
    /\ gnss.out.data.variant = "Position"
    /\ gnss.out.data.flags # 0
    /\ ~FixValidBitSet(gnss.out.data.flags)
    /\ ~gnss.valid


-----------------------------------------------------------------------------
(* Claims about poll and nrf_modem_os_timedwait (specification UtilSpec) *)

Polled == util.pc = "done" /\ util.fn = "poll"

\* C31: poll with more than MAX_SOCKETS_POLL entries returns TooManySockets
\* without calling the library; when nrf_poll returns 0 poll returns Ok(0)
\* and leaves every entry's result unchanged; when it returns n > 0 every
\* entry's result is the `returned` field at the same index; a failing
\* nrf_poll (a negative return) gives an error and never Ok.
C31_PollOutcome ==
    Polled =>
        /\ Len(util.before) > MAX_SOCKETS_POLL =>
              /\ util.result = TooManySockets
              /\ util.calls = <<>>
              /\ util.list = util.before
        /\ Len(util.before) <= MAX_SOCKETS_POLL =>
              /\ Len(util.calls) = 1
              /\ util.calls[1].fn = "nrf_poll"
              /\ util.backend = 0 =>
                    util.result = OkCount(0) /\ util.list = util.before
              /\ util.backend > 0 =>
                    /\ util.result = OkCount(util.backend)
                    /\ \A i \in 1..Len(util.list) :
                          util.list[i].result \in Returned
              /\ util.backend < 0 =>
                    /\ util.result.kind = "Nordic"
                    /\ util.list = util.before

\* The parts of C31 other than the last hold: the outcome for a list that is
\* too long, for a timeout, for ready sockets and for the failure code -1.
PollOutcomeButOtherFailures ==
    (Polled /\ util.backend >= 0 - 1) => C31_PollOutcome

\* A negative return other than -1 was answered with Ok and the results of
\* the entries were overwritten.
FailedPollIsOk ==
    /\ Polled
    /\ util.backend < 0 - 1
    /\ util.result.kind = "Ok"
    /\ util.list # util.before

Waited == util.fn = "nrf_modem_os_timedwait"

\* C40: nrf_modem_os_timedwait returns 0 without delaying for every negative
\* timeout; for every timeout t >= 0 it delays t * 64000 cycles, the product
\* not overflowing 32 bits, and returns the timed-out code.
C40_TimedWait ==
    Waited =>
        IF util.timeout_ms < 0
        THEN util.pc = "done" /\ util.ret = 0 /\ util.delay = <<>>
        ELSE /\ util.pc = "done"
             /\ util.ret = NRF_ETIMEDOUT
             /\ util.carry = 0
             /\ Len(util.delay) = 2
             /\ util.timeout_ms <= 2147483647 \div CyclesPerMs =>
                   util.delay[1] * Half + util.delay[2]
                       = util.timeout_ms * CyclesPerMs

\* C40 holds of the timeouts up to u32::MAX / 64000 = 67108.
TimedWaitSmall ==
    (Waited /\ util.timeout_ms <= 67108) => C40_TimedWait

\* A timeout above 67108: the product does not fit, and the call delayed for
\* the wrapped number of cycles.
WaitWrapped ==
    /\ Waited
    /\ util.pc = "done"
    /\ util.timeout_ms > 67108
    /\ util.carry # 0
    /\ util.ret = NRF_ETIMEDOUT


-----------------------------------------------------------------------------
(* More claims about the sockets (specification NetSpec) *)

\* The documented codes of the peer verification levels.
DocumentedCode(level) ==
    IF level = "Disabled" THEN 0 ELSE IF level = "Optional" THEN 1 ELSE 2
PeerVerifyCalls ==
    {k \in 1..Len(net.op.calls) :
        net.op.calls[k].fn = "nrf_setsockopt" /\ net.op.calls[k].opt = "TlsPeerVerify"}

\* C32: for TLS and for DTLS the three peer verification levels are encoded
\* as three distinct codes, Disabled 0, Optional 1, Enabled 2, and the
\* constructor passes that code to nrf_setsockopt.
C32_PeerVerifyCode ==
    /\ \A a, b \in PeerVerifications :
          /\ tls_as_integer(a) = DocumentedCode(a)
          /\ a # b => tls_as_integer(a) # tls_as_integer(b)
          /\ a # b => dtls_as_integer(a) # dtls_as_integer(b)
    /\ (net.op.name = "new" /\ net.op.kind \in {"TlsSocket", "DtlsSocket"}) =>
          /\ \A k \in PeerVerifyCalls :
                net.op.calls[k].addr = DocumentedCode(net.op.supplied[1])
          /\ net.op.calls[Len(net.op.calls)].fn # "nrf_socket" =>
                Cardinality(PeerVerifyCalls) = 1

\* C32 witness: DtlsSocket::new with PeerVerification::Enabled set the option.
C32_Witness ==
    /\ net.op.name = "new"
    /\ net.op.kind = "DtlsSocket"
    /\ net.op.supplied = <<"Enabled">>
    /\ net.op.result = Ok
    /\ PeerVerifyCalls # {}


-----------------------------------------------------------------------------
(* More claims about the IPC driver (specification IPCSpec) *)

\* C33: in every interleaving of nrfx_ipc_init with an IPC interrupt the
\* handler never runs before the handler and the context of the registration
\* are both stored: the ISR calls no zero handler address, and the handler
\* and the context of a call belong to the same registration.
C33_InterruptAfterStores ==
    /\ ipc.isr.pc # "undefined"
    /\ \A k \in 1..Len(ipc.calls) :
          /\ ipc.calls[k].handler = ipc.calls[k].registered.handler
          /\ ipc.calls[k].ptr = ipc.calls[k].registered.p_context

\* The interrupt came during the first nrfx_ipc_init, after the unmask and
\* before the handler was stored: the address 0 was called.
ZeroHandlerCalled ==
    /\ ipc.isr.pc = "undefined"
    /\ ipc.isr.during_init
    /\ ipc.nregs = 1
    /\ ipc.IPC_HANDLER = 0

\* The interrupt came during a second nrfx_ipc_init, between its two stores:
\* the handler of the first registration was called with the context of the
\* second.
MixedRegistration ==
    /\ Len(ipc.calls) > 0
    /\ ipc.calls[1].during_init
    /\ ipc.calls[1].handler = ipc.calls[1].registered.handler
    /\ ipc.calls[1].ptr # ipc.calls[1].registered.p_context
    /\ ipc.calls[1].ptr = ipc.init.p_context

\* With the interrupts that come while no nrfx_ipc_init is running, the
\* handler and the context of every call are those of the last registration.
OutsideInitPaired ==
    \A k \in 1..Len(ipc.calls) :
        ~ipc.calls[k].during_init =>
            /\ ipc.calls[k].handler = ipc.calls[k].registered.handler
            /\ ipc.calls[k].ptr = ipc.calls[k].registered.p_context


-----------------------------------------------------------------------------
(* More claims about the allocators (specification Spec) *)

RECURSIVE FreeBytes(_)
FreeBytes(holes) ==
    IF holes = <<>> THEN 0 ELSE Head(holes).size + FreeBytes(Tail(holes))
RegionBytes(h) == heap[h].top - heap[h].bottom

HeaderBytesLost ==
    /\ last.op = "free"
    /\ last.immediate
    /\ live[last.h] = {}
    /\ status = "running"
    /\ FreeBytes(heap[last.h].holes) < RegionBytes(last.h)

\* The sizes within one header size of the maximum word value, in the
\* two's-complement representation.
NearMax(n) == n < 0 /\ n >= 0 - usize_size

\* C35: for every requested size n the size asked of the heap is n plus the
\* header size without wrap-around: it is not below n as an unsigned word,
\* and a request within one header size of the maximum word value returns
\* null, not a block.
C35_NoWrapAround ==
    last.op = "alloc" =>
        /\ ~ULess(last.layout_size, last.num_bytes)
        /\ NearMax(last.num_bytes) => (last.result = NULL /\ status = "running")

\* A request of usize::MAX - 3 was answered with a block.
BlockForHugeRequest ==
    /\ last.op = "alloc"
    /\ NearMax(last.num_bytes)
    /\ last.layout_size = 0
    /\ last.result # NULL

\* C35 holds of the requests that are not within one header size of the
\* maximum.
OrdinarySizesDoNotWrap ==
    (last.op = "alloc" /\ ~NearMax(last.num_bytes)) =>
        ~ULess(last.layout_size, last.num_bytes)


-----------------------------------------------------------------------------
(* More claims about connect (specification NetSpec); op.supplied of a connect
   holds the length of the hostname *)

Connected == net.op.name = "connect"
Resolved(code) ==
    \E i \in 1 .. Len(net.op.calls) :
        net.op.calls[i].fn = "nrf_getaddrinfo" /\ net.op.calls[i].ret = code

\* C36: connect of TcpSocket, TlsSocket and DtlsSocket walks the address list
\* only when the resolver produced a non-null list: whatever the resolver's
\* return code and list pointer, no null address record is dereferenced.
C36_NoNullDereference ==
    Connected => net.op.result.kind # "undefined"

\* TlsSocket::connect or DtlsSocket::connect dereferenced the null list the
\* resolver left with the return code 0.
NullListWalked ==
    /\ Connected
    /\ net.op.kind \in {"TlsSocket", "DtlsSocket"}
    /\ net.op.naddrs = 0
    /\ Resolved(0)
    /\ net.op.result.kind = "undefined"

\* C36 holds of TcpSocket::connect, and of the other two when the resolver
\* failed or the list is not null.
NullDereferenceOnlyOnZeroAndNull ==
    (Connected /\ net.op.result.kind = "undefined") =>
        /\ net.op.kind # "TcpSocket"
        /\ net.op.naddrs = 0
        /\ Resolved(0)

\* The hostname of the last connect, with its NUL, is more than 64 bytes.
TooLong == Connected /\ net.op.supplied[1] + 1 > 64
Issued(fns) ==
    \E i \in 1 .. Len(net.op.calls) : net.op.calls[i].fn \in fns

\* C37 (as stated): connect with a hostname that does not fit in the staging
\* buffer returns HostnameTooLong and issues nothing to the backend.
C37_HostnameTooLongOnly ==
    TooLong => (net.op.result = HostnameTooLong /\ net.op.calls = <<>>)

\* C37 (amended): connect with a hostname that does not fit resolves no
\* address and attempts no connect; TcpSocket returns HostnameTooLong and
\* issues nothing; TlsSocket and DtlsSocket issue the TlsHostName option and
\* nothing else, and return the option's error if it failed, else
\* HostnameTooLong.
C37_HostnameTooLongAmended ==
    TooLong =>
        /\ ~Issued({"nrf_getaddrinfo", "nrf_connect", "nrf_freeaddrinfo"})
        /\ net.op.kind = "TcpSocket" =>
               (net.op.result = HostnameTooLong /\ net.op.calls = <<>>)
        /\ net.op.kind \in {"TlsSocket", "DtlsSocket"} =>
               /\ Len(net.op.calls) = 1
               /\ net.op.calls[1].fn = "nrf_setsockopt"
               /\ net.op.calls[1].opt = "TlsHostName"
               /\ net.op.calls[1].fd = net.values[net.op.slot].fd
               /\ IF net.op.calls[1].ret < 0
                  THEN /\ net.op.result.kind = "Nordic"
                       /\ net.op.result.tag = "set_option"
                  ELSE net.op.result = HostnameTooLong

\* A TLS connect with a hostname of 64 bytes returned HostnameTooLong after
\* the hostname option was set.
C37_Witness ==
    /\ TooLong
    /\ net.op.kind = "TlsSocket"
    /\ net.op.result = HostnameTooLong
    /\ Len(net.op.calls) = 1
    /\ "TlsHostName" \in net.values[net.op.slot].options


-----------------------------------------------------------------------------
(* The destruction of a GnssSocket (specification NetSpec) *)

GnssDropped == net.op.name = "drop" /\ net.op.kind = "GnssSocket"
Stops ==
    {i \in CallsOf("nrf_setsockopt") : net.op.calls[i].opt = "GnssStop"}

\* C38: destroying a GnssSocket issues the GNSS stop option exactly once, on
\* the descriptor while it is open, and then closes that descriptor exactly
\* once; the close happens when the stop option fails too, and no stop comes
\* after the close.
C38_StopThenClose ==
    GnssDropped =>
        /\ Cardinality(Stops) = 1
        /\ Cardinality(CallsOf("nrf_close")) = 1
        /\ \A i \in Stops : \A j \in CallsOf("nrf_close") :
               /\ i < j
               /\ net.op.calls[i].fd = net.op.calls[j].fd
               /\ net.op.calls[j].fd >= 0
               /\ net.op.calls[j].fd \notin net.open
        /\ ~net.faults
        /\ net.values[net.op.slot] = NoValue

\* A GnssSocket was destroyed while its stop option failed.
C38_Witness ==
    /\ GnssDropped
    /\ \E i \in Stops : net.op.calls[i].ret < 0
    /\ CallsOf("nrf_close") # {}


-----------------------------------------------------------------------------
(* The text records (specification GnssSpec) *)

\* C39: every Nmea value process_fix produces has a length strictly below the
\* size of its buffer, no NUL, carriage-return or newline byte among
\* buffer[0..length], and those bytes are well-formed UTF-8.
C39_NmeaInvariant ==
    (Decoded /\ gnss.out.data.variant = "Nmea") =>
        LET buffer == gnss.out.data.buffer
            length == gnss.out.data.length
        IN  /\ Len(buffer) = FieldLen
            /\ length >= 0
            /\ length < Len(buffer)
            /\ \A i \in 1 .. length : buffer[i] \notin TextEnds
            /\ WellFormed(SubSeq(buffer, 1, length))

\* An Nmea value of the greatest length: the terminator is the last byte of
\* the buffer.
C39_Witness ==
    /\ Decoded
    /\ gnss.out.data.variant = "Nmea"
    /\ gnss.out.data.length = Len(gnss.out.data.buffer) - 1
    /\ gnss.out.data.length > 0
    /\ \E i \in 1 .. gnss.out.data.length : gnss.out.data.buffer[i] > 127

====
